---- MODULE Spec2Model ----
(***************************************************************************)
(* A model of the Queryable query library (Queryable.ts) of JsonPlayground. *)
(*                                                                         *)
(* A Queryable object is a handle holding a reference (_arr) to a backing  *)
(* array.  The heap of arrays and the handles are the state; every         *)
(* operator of the class is an action on them.                             *)
(*                                                                         *)
(* JavaScript values are records tagged by their type:                     *)
(*   null, undefined, number (an integer), NaN, string (a sequence of      *)
(*   character codes: 0..9 are the digits '0'..'9', 10.. are the letters   *)
(*   'a'..), object (an identity id and two properties a and b).           *)
(*                                                                         *)
(* The second part models the suggestion engine of the code editor         *)
(* (useAutocomplete.ts): the state of the hook is the record hook, the     *)
(* JSON document and the text of the editor are in input, and              *)
(* findSuggestions, selectSuggestion, moveSelection and close are actions  *)
(* on hook.  Texts are TLA+ strings and the regular expressions of the     *)
(* source are operators on them.                                           *)
(*                                                                         *)
(* The third part models two components over that: CodeEditor, which       *)
(* calls the hook from the handlers of its textarea and replaces text when *)
(* a suggestion is accepted, and JsonPlayground, which runs the code of    *)
(* the user from timers.  Their state is the record ui.  The loop of Chunk *)
(* is also taken one iteration at a time, with its frame in last.          *)
(***************************************************************************)
EXTENDS Integers, Sequences, FiniteSets, TLC

VARIABLES
  arrays,   \* the heap: arrays[i] is the element sequence of array i
  handles,  \* handles[h] is the array the Queryable object h holds in _arr
  last,     \* the last call: operator, receiver, arguments, and what it returned
  input,    \* the arguments a caller's chained expression was given
  hook,     \* the state of the useAutocomplete hook, <<>> where no hook is mounted
  ui        \* the state of the components CodeEditor and JsonPlayground, <<>> where none is mounted

vars == <<arrays, handles, last, input, hook, ui>>

(***************************************************************************)
(* Bounds of the model.                                                    *)
(***************************************************************************)
MaxLen == 2
MaxHandles == 2

(***************************************************************************)
(* JavaScript values.                                                      *)
(***************************************************************************)
Null == [t |-> "null"]
Undefined == [t |-> "undefined"]
NaN == [t |-> "NaN"]
Num(n) == [t |-> "number", n |-> n]
Str(s) == [t |-> "string", s |-> s]
Obj(id, a, b) == [t |-> "object", id |-> id, a |-> a, b |-> b]

\* a == null
IsNullish(v) == v.t \in {"null", "undefined"}

\* a === b: NaN is not identical to itself, an object only to itself
StrictEquals(a, b) == a = b /\ a.t # "NaN"

\* The key equality of Map and Set (SameValueZero): as ===, but NaN equals NaN
SameValueZero(a, b) == a = b

IsDigit(c) == c \in 0..9

RECURSIVE DecimalValue(_)
DecimalValue(s) ==
  IF s = <<>> THEN 0
  ELSE 10 * DecimalValue(SubSeq(s, 1, Len(s) - 1)) + s[Len(s)]

\* ToNumber(v) is a number (not NaN)
IsNumeric(v) ==
  CASE v.t = "number" -> TRUE
    [] v.t = "null" -> TRUE
    [] v.t = "string" -> \A i \in 1..Len(v.s) : IsDigit(v.s[i])
    [] OTHER -> FALSE

ToNumber(v) ==
  CASE v.t = "number" -> v.n
    [] v.t = "null" -> 0
    [] v.t = "string" -> DecimalValue(v.s)

\* the order of two strings, character by character; a proper prefix is first
RECURSIVE SeqCompare(_, _)
SeqCompare(s, u) ==
  IF s = <<>> /\ u = <<>> THEN 0
  ELSE IF s = <<>> THEN -1
  ELSE IF u = <<>> THEN 1
  ELSE IF s[1] < u[1] THEN -1
  ELSE IF s[1] > u[1] THEN 1
  ELSE SeqCompare(Tail(s), Tail(u))

\* a.localeCompare(b), on strings of digits and lower-case letters
localeCompare(a, b) == SeqCompare(a.s, b.s)

\* a > b: two strings by code units, anything else by ToNumber; NaN is never greater
GreaterThan(a, b) ==
  IF a.t = "string" /\ b.t = "string" THEN SeqCompare(a.s, b.s) > 0
  ELSE IsNumeric(a) /\ IsNumeric(b) /\ ToNumber(a) > ToNumber(b)

_compare(a, b) ==
  IF StrictEquals(a, b) THEN 0
  ELSE IF IsNullish(a) THEN -1
  ELSE IF IsNullish(b) THEN 1
  ELSE IF a.t = "string" /\ b.t = "string" THEN localeCompare(a, b)
  ELSE IF GreaterThan(a, b) THEN 1 ELSE -1

(***************************************************************************)
(* Selectors and predicates.  A selector is null (or absent), a property   *)
(* name, or a function, which is given as its graph over the values.  A    *)
(* predicate is absent or a function, given as the set of values it holds  *)
(* of.                                                                     *)
(***************************************************************************)
NoSelector == [kind |-> "null"]
Prop(name) == [kind |-> "string", name |-> name]
Fn(f) == [kind |-> "function", f |-> f]

GetProp(x, name) ==
  IF x.t # "object" THEN Undefined
  ELSE IF name = "a" THEN x.a
  ELSE IF name = "b" THEN x.b
  ELSE Undefined

_toFn(selector, x) ==
  CASE selector.kind = "null" -> x
    [] selector.kind = "function" -> selector.f[x]
    [] selector.kind = "string" -> IF IsNullish(x) THEN Undefined ELSE GetProp(x, selector.name)

NoPredicate == [kind |-> "null"]
Pred(S) == [kind |-> "function", holds |-> S]

\* the elements the optional predicate keeps: all of them when it is absent
Filtered(arr, predicate) ==
  IF predicate.kind = "null" THEN arr
  ELSE SelectSeq(arr, LAMBDA x : x \in predicate.holds)

(***************************************************************************)
(* Array.prototype.sort with the comparator (a, b) => sign * _compare(     *)
(* ks(a), ks(b)).  undefined elements go last without being compared.  A   *)
(* comparator that is consistent on the elements gives the one stable      *)
(* sorted order; with any other the order is implementation-defined: any   *)
(* permutation.                                                            *)
(***************************************************************************)
KeyCompare(ks, sign, x, y) == sign * _compare(_toFn(ks, x), _toFn(ks, y))

Elements(s) == {s[i] : i \in 1..Len(s)}

ConsistentComparator(S, ks, sign) ==
  /\ \A x \in S : KeyCompare(ks, sign, x, x) = 0
  /\ \A x, y \in S :
       /\ KeyCompare(ks, sign, x, y) < 0 => KeyCompare(ks, sign, y, x) > 0
       /\ KeyCompare(ks, sign, x, y) = 0 => KeyCompare(ks, sign, y, x) = 0
  /\ \A x, y, z \in S :
       /\ (KeyCompare(ks, sign, x, y) < 0 /\ KeyCompare(ks, sign, y, z) < 0)
            => KeyCompare(ks, sign, x, z) < 0
       /\ (KeyCompare(ks, sign, x, y) = 0 /\ KeyCompare(ks, sign, y, z) = 0)
            => KeyCompare(ks, sign, x, z) = 0
       /\ (KeyCompare(ks, sign, x, y) = 0 /\ KeyCompare(ks, sign, y, z) < 0)
            => KeyCompare(ks, sign, x, z) < 0
       /\ (KeyCompare(ks, sign, x, y) < 0 /\ KeyCompare(ks, sign, y, z) = 0)
            => KeyCompare(ks, sign, x, z) < 0

RECURSIVE StableSort(_, _, _)
StableSort(arr, ks, sign) ==
  IF arr = <<>> THEN <<>>
  ELSE LET front == StableSort(SubSeq(arr, 1, Len(arr) - 1), ks, sign)
           x == arr[Len(arr)]
           k == Cardinality({i \in 1..Len(front) : KeyCompare(ks, sign, front[i], x) <= 0})
       IN SubSeq(front, 1, k) \o <<x>> \o SubSeq(front, k + 1, Len(front))

SeqPermutations(arr) ==
  LET n == Len(arr)
      bij == {p \in [1..n -> 1..n] : \A i, j \in 1..n : p[i] = p[j] => i = j}
  IN {[i \in 1..n |-> arr[p[i]]] : p \in bij}

ArraySort(arr, ks, sign) ==
  LET defined == SelectSeq(arr, LAMBDA x : x # Undefined)
      undefs == SelectSeq(arr, LAMBDA x : x = Undefined)
  IN IF ConsistentComparator(Elements(defined), ks, sign)
     THEN {StableSort(defined, ks, sign) \o undefs}
     ELSE {p \o undefs : p \in SeqPermutations(defined)}

(***************************************************************************)
(* Array helpers.                                                          *)
(***************************************************************************)
Min2(a, b) == IF a < b THEN a ELSE b
Max2(a, b) == IF a > b THEN a ELSE b

\* arr.slice(start, end), indices counted from 0, negative ones from the end
\* a slice that ignores its end
sliceToEnd(arr, start, end) == SubSeq(arr, Min2(start, Len(arr)) + 1, Len(arr))

slice(arr, start, end) ==
  LET len == Len(arr)
      from == IF start < 0 THEN Max2(len + start, 0) ELSE Min2(start, len)
      to == IF end < 0 THEN Max2(len + end, 0) ELSE Min2(end, len)
  IN SubSeq(arr, from + 1, to)

\* Array(n).fill(v)
fill(n, v) == [i \in 1..n |-> v]

reverse(arr) == [i \in 1..Len(arr) |-> arr[Len(arr) + 1 - i]]

\* the array a handle holds
ArrOf(h) == arrays[handles[h]]

(***************************************************************************)
(* How a call ends: with a new Queryable (the constructor copies the       *)
(* iterable into a new array), with the receiver itself, with a value, or  *)
(* with an error thrown.                                                   *)
(***************************************************************************)
Call(op, h, args, ret, val, err) ==
  [op |-> op, recv |-> h, args |-> args, ret |-> ret, val |-> val, err |-> err]

NewQueryable(op, h, args, iterable) ==
  /\ arrays' = Append(arrays, iterable)
  /\ handles' = Append(handles, Len(arrays) + 1)
  /\ last' = Call(op, h, args, Len(handles) + 1, Undefined, FALSE)
  /\ UNCHANGED <<input, hook, ui>>

ReturnThis(op, h, args) ==
  /\ last' = Call(op, h, args, h, Undefined, FALSE)
  /\ UNCHANGED <<arrays, handles, input, hook, ui>>

ReturnValue(op, h, args, val) ==
  /\ last' = Call(op, h, args, 0, val, FALSE)
  /\ UNCHANGED <<arrays, handles, input, hook, ui>>

Throw(op, h, args) ==
  /\ last' = Call(op, h, args, 0, Undefined, TRUE)
  /\ UNCHANGED <<arrays, handles, input, hook, ui>>

(***************************************************************************)
(* The operators of Queryable.  h is the receiver.                         *)
(***************************************************************************)
Where(h, predicate) ==
  NewQueryable("Where", h, [predicate |-> predicate], Filtered(ArrOf(h), predicate))

Select(h, selector) ==
  NewQueryable("Select", h, [selector |-> selector],
               [i \in 1..Len(ArrOf(h)) |-> _toFn(selector, ArrOf(h)[i])])

\* a sort of this._arr itself instead of a copy of it
OrderByInPlace(h, keySelector) ==
  \E copy \in ArraySort(ArrOf(h), keySelector, 1) :
    /\ arrays' = Append([arrays EXCEPT ![handles[h]] = copy], copy)
    /\ handles' = Append(handles, Len(arrays) + 1)
    /\ last' = Call("OrderBy", h, [keySelector |-> keySelector], Len(handles) + 1, Undefined, FALSE)
    /\ UNCHANGED <<input, hook, ui>>

OrderBy(h, keySelector) ==
  \E copy \in ArraySort(ArrOf(h), keySelector, 1) :
    NewQueryable("OrderBy", h, [keySelector |-> keySelector], copy)

OrderByDescending(h, keySelector) ==
  \E copy \in ArraySort(ArrOf(h), keySelector, -1) :
    NewQueryable("OrderByDescending", h, [keySelector |-> keySelector], copy)

ThenBy(h, keySelector) ==
  \E copy \in ArraySort(ArrOf(h), keySelector, 1) :
    NewQueryable("ThenBy", h, [keySelector |-> keySelector], copy)

ThenByDescending(h, keySelector) ==
  \E copy \in ArraySort(ArrOf(h), keySelector, -1) :
    NewQueryable("ThenByDescending", h, [keySelector |-> keySelector], copy)

\* a Map whose entry is overwritten by every later item of its key
RECURSIVE SeenValuesLast(_, _)
SeenValuesLast(arr, ks) ==
  IF arr = <<>> THEN <<>>
  ELSE LET front == SeenValuesLast(SubSeq(arr, 1, Len(arr) - 1), ks)
           item == arr[Len(arr)]
       IN IF \E i \in 1..Len(front) : SameValueZero(_toFn(ks, front[i]), _toFn(ks, item))
          THEN [i \in 1..Len(front) |->
                  IF SameValueZero(_toFn(ks, front[i]), _toFn(ks, item)) THEN item ELSE front[i]]
          ELSE Append(front, item)

\* the values of the Map seen, in insertion order: the first item of each key
RECURSIVE SeenValues(_, _)
SeenValues(arr, ks) ==
  IF arr = <<>> THEN <<>>
  ELSE LET front == SeenValues(SubSeq(arr, 1, Len(arr) - 1), ks)
           item == arr[Len(arr)]
           has == \E i \in 1..Len(arr) - 1 : SameValueZero(_toFn(ks, arr[i]), _toFn(ks, item))
       IN IF has THEN front ELSE Append(front, item)

Distinct(h, keySelector) ==
  NewQueryable("Distinct", h, [keySelector |-> keySelector], SeenValues(ArrOf(h), keySelector))

Skip(h, n) == NewQueryable("Skip", h, [n |-> n], slice(ArrOf(h), n, Len(ArrOf(h))))

Take(h, n) == NewQueryable("Take", h, [n |-> n], slice(ArrOf(h), 0, n))

ToArray(h) == ReturnValue("ToArray", h, <<>>, ArrOf(h))

DefaultIfEmpty(h, defaultValue) ==
  IF Len(ArrOf(h)) = 0
  THEN NewQueryable("DefaultIfEmpty", h, [defaultValue |-> defaultValue], <<defaultValue>>)
  ELSE ReturnThis("DefaultIfEmpty", h, [defaultValue |-> defaultValue])

Append_(h, item) == NewQueryable("Append", h, [item |-> item], ArrOf(h) \o <<item>>)

Prepend(h, item) == NewQueryable("Prepend", h, [item |-> item], <<item>> \o ArrOf(h))

Concat(h, other) == NewQueryable("Concat", h, [other |-> other], ArrOf(h) \o other)

Reverse(h) == NewQueryable("Reverse", h, <<>>, reverse(ArrOf(h)))

\* a Single that throws only when nothing matches
SingleFirst(h, predicate) ==
  LET filtered == Filtered(ArrOf(h), predicate)
  IN IF Len(filtered) = 0
     THEN Throw("Single", h, [predicate |-> predicate])
     ELSE ReturnValue("Single", h, [predicate |-> predicate], filtered[1])

Single(h, predicate) ==
  LET filtered == Filtered(ArrOf(h), predicate)
  IN IF Len(filtered) # 1
     THEN Throw("Single", h, [predicate |-> predicate])
     ELSE ReturnValue("Single", h, [predicate |-> predicate], filtered[1])

\* a SingleOrDefault that returns the default whenever not exactly one matches
SingleOrDefaultSilent(h, defaultValue, predicate) ==
  LET filtered == Filtered(ArrOf(h), predicate)
      args == [defaultValue |-> defaultValue, predicate |-> predicate]
  IN IF Len(filtered) # 1 THEN ReturnValue("SingleOrDefault", h, args, defaultValue)
     ELSE ReturnValue("SingleOrDefault", h, args, filtered[1])

SingleOrDefault(h, defaultValue, predicate) ==
  LET filtered == Filtered(ArrOf(h), predicate)
      args == [defaultValue |-> defaultValue, predicate |-> predicate]
  IN IF Len(filtered) = 0 THEN ReturnValue("SingleOrDefault", h, args, defaultValue)
     ELSE IF Len(filtered) > 1 THEN Throw("SingleOrDefault", h, args)
     ELSE ReturnValue("SingleOrDefault", h, args, filtered[1])

SkipLast(h, n) ==
  IF n <= 0 THEN ReturnThis("SkipLast", h, [n |-> n])
  ELSE NewQueryable("SkipLast", h, [n |-> n], slice(ArrOf(h), 0, -n))

TakeLast(h, n) ==
  IF n <= 0 THEN NewQueryable("TakeLast", h, [n |-> n], <<>>)
  ELSE NewQueryable("TakeLast", h, [n |-> n], slice(ArrOf(h), -n, Len(ArrOf(h))))

\* a constructor that keeps the array it is given instead of copying it
CastSharingArray(h) ==
  /\ handles' = Append(handles, handles[h])
  /\ last' = Call("Cast", h, <<>>, Len(handles) + 1, Undefined, FALSE)
  /\ UNCHANGED <<arrays, input, hook, ui>>

Cast(h) == NewQueryable("Cast", h, <<>>, ArrOf(h))

PadEnd(h, length, padding) ==
  IF Len(ArrOf(h)) >= length
  THEN ReturnThis("PadEnd", h, [length |-> length, padding |-> padding])
  ELSE NewQueryable("PadEnd", h, [length |-> length, padding |-> padding],
                    ArrOf(h) \o fill(length - Len(ArrOf(h)), padding))

PadStart(h, length, padding) ==
  IF Len(ArrOf(h)) >= length
  THEN ReturnThis("PadStart", h, [length |-> length, padding |-> padding])
  ELSE NewQueryable("PadStart", h, [length |-> length, padding |-> padding],
                    fill(length - Len(ArrOf(h)), padding) \o ArrOf(h))

Lead(h, n, defaultValue) ==
  IF n <= 0 THEN ReturnThis("Lead", h, [n |-> n, defaultValue |-> defaultValue])
  ELSE NewQueryable("Lead", h, [n |-> n, defaultValue |-> defaultValue],
                    slice(slice(ArrOf(h), n, Len(ArrOf(h))) \o fill(n, defaultValue),
                          0, Len(ArrOf(h))))

Lag(h, n, defaultValue) ==
  IF n <= 0 THEN ReturnThis("Lag", h, [n |-> n, defaultValue |-> defaultValue])
  ELSE LET len == Len(ArrOf(h))
           out == slice(fill(n, defaultValue) \o slice(ArrOf(h), 0, Max2(0, len - n)), 0, len)
       IN NewQueryable("Lag", h, [n |-> n, defaultValue |-> defaultValue],
                       IF len # 0 THEN out ELSE <<>>)

\* array[startIndex + i] = this._arr[i]; a write past the end leaves holes, read as undefined
CopyTo(h, array, startIndex) ==
  LET src == ArrOf(h)
      len == Max2(Len(array), IF Len(src) = 0 THEN 0 ELSE startIndex + Len(src))
      written == [i \in 1..len |->
                    IF i > startIndex /\ i <= startIndex + Len(src) THEN src[i - startIndex]
                    ELSE IF i <= Len(array) THEN array[i]
                    ELSE Undefined]
  IN ReturnValue("CopyTo", h, [array |-> array, startIndex |-> startIndex], written)

\* the result selector the caller passes: the pair of the two elements
result(o, i) == [outer |-> o, inner |-> i]

\* a Map that keeps only the last inner element of each key
MapGetLast(inner, iKey, k) ==
  LET all == SelectSeq(inner, LAMBDA i : SameValueZero(_toFn(iKey, i), k))
  IN IF all = <<>> THEN <<>> ELSE <<all[Len(all)]>>

\* map.get(k) of the Map built from inner: the inner elements of key k, in
\* their order; the empty sequence stands for undefined (no entry)
MapGet(inner, iKey, k) ==
  SelectSeq(inner, LAMBDA i : SameValueZero(_toFn(iKey, i), k))

RECURSIVE JoinRows(_, _, _, _)
JoinRows(arr, inner, outerKey, innerKey) ==
  IF arr = <<>> THEN <<>>
  ELSE LET o == Head(arr)
           matches == MapGet(inner, innerKey, _toFn(outerKey, o))
       IN [n \in 1..Len(matches) |-> result(o, matches[n])]
            \o JoinRows(Tail(arr), inner, outerKey, innerKey)

Join(h, inner, outerKey, innerKey) ==
  NewQueryable("Join", h, [inner |-> inner, outerKey |-> outerKey, innerKey |-> innerKey],
               JoinRows(ArrOf(h), inner, outerKey, innerKey))

\* a left join that drops the outer elements without a match
RECURSIVE LeftJoinRowsWithoutNull(_, _, _, _)
LeftJoinRowsWithoutNull(arr, inner, outerKey, innerKey) ==
  IF arr = <<>> THEN <<>>
  ELSE LET o == Head(arr)
           matches == MapGet(inner, innerKey, _toFn(outerKey, o))
       IN [n \in 1..Len(matches) |-> result(o, matches[n])]
            \o LeftJoinRowsWithoutNull(Tail(arr), inner, outerKey, innerKey)

RECURSIVE LeftJoinRows(_, _, _, _)
LeftJoinRows(arr, inner, outerKey, innerKey) ==
  IF arr = <<>> THEN <<>>
  ELSE LET o == Head(arr)
           matches == MapGet(inner, innerKey, _toFn(outerKey, o))
       IN (IF matches = <<>> THEN <<result(o, Null)>>
           ELSE [n \in 1..Len(matches) |-> result(o, matches[n])])
            \o LeftJoinRows(Tail(arr), inner, outerKey, innerKey)

LeftJoin(h, inner, outerKey, innerKey) ==
  NewQueryable("LeftJoin", h, [inner |-> inner, outerKey |-> outerKey, innerKey |-> innerKey],
               LeftJoinRows(ArrOf(h), inner, outerKey, innerKey))

(***************************************************************************)
(* Spec: a caller holding handles, calling any operator on any of them.    *)
(* The elements are the numbers 1 and 2.                                    *)
(***************************************************************************)
SeqsOf(S, n) == UNION {[1..k -> S] : k \in 0..n}

Numbers == {Num(1), Num(2)}
Counts == {0, 1}

\* Queryable.From(iterable)
From(iterable) ==
  /\ arrays = <<iterable>>
  /\ handles = <<1>>
  /\ last = Call("From", 0, [iterable |-> iterable], 1, Undefined, FALSE)

Init ==
  /\ \E iterable \in SeqsOf(Numbers, MaxLen) : From(iterable)
  /\ input = <<>>
  /\ hook = <<>>
  /\ ui = <<>>

\* the bounds: the caller holds at most MaxHandles handles, of at most MaxLen elements
Room == Len(handles) < MaxHandles
Short(h) == Len(ArrOf(h)) < MaxLen

Next ==
  \/ \E h \in DOMAIN handles : Room /\ Where(h, Pred({Num(1)}))
  \/ \E h \in DOMAIN handles : Room /\ Select(h, Fn([x \in Numbers |-> Num(1)]))
  \/ \E h \in DOMAIN handles : Room /\ OrderBy(h, NoSelector)
  \/ \E h \in DOMAIN handles : Room /\ OrderByDescending(h, NoSelector)
  \/ \E h \in DOMAIN handles : Room /\ ThenBy(h, NoSelector)
  \/ \E h \in DOMAIN handles : Room /\ ThenByDescending(h, NoSelector)
  \/ \E h \in DOMAIN handles : Room /\ Distinct(h, NoSelector)
  \/ \E h \in DOMAIN handles : Room /\ Skip(h, 1)
  \/ \E h \in DOMAIN handles : Room /\ Take(h, 1)
  \/ \E h \in DOMAIN handles : ToArray(h)
  \/ \E h \in DOMAIN handles : (Room \/ ArrOf(h) # <<>>) /\ DefaultIfEmpty(h, Num(2))
  \/ \E h \in DOMAIN handles : Room /\ Short(h) /\ Append_(h, Num(1))
  \/ \E h \in DOMAIN handles : Room /\ Short(h) /\ Prepend(h, Num(2))
  \/ \E h \in DOMAIN handles : Room /\ Short(h) /\ Concat(h, <<Num(2)>>)
  \/ \E h \in DOMAIN handles : Room /\ Reverse(h)
  \/ \E h \in DOMAIN handles : Single(h, NoPredicate)
  \/ \E h \in DOMAIN handles : SingleOrDefault(h, Num(2), Pred({Num(1)}))
  \/ \E h \in DOMAIN handles, n \in Counts : (Room \/ n <= 0) /\ SkipLast(h, n)
  \/ \E h \in DOMAIN handles, n \in Counts : Room /\ TakeLast(h, n)
  \/ \E h \in DOMAIN handles : Room /\ Cast(h)
  \/ \E h \in DOMAIN handles : (Room \/ ~Short(h)) /\ PadEnd(h, MaxLen, Num(1))
  \/ \E h \in DOMAIN handles : (Room \/ ~Short(h)) /\ PadStart(h, MaxLen, Num(2))
  \/ \E h \in DOMAIN handles, n \in Counts : (Room \/ n <= 0) /\ Lead(h, n, Num(1))
  \/ \E h \in DOMAIN handles, n \in Counts : (Room \/ n <= 0) /\ Lag(h, n, Num(2))
  \/ \E h \in DOMAIN handles : CopyTo(h, <<Num(1)>>, 1)

Spec == Init /\ [][Next]_vars

(***************************************************************************)
(* C1: no operator call changes what ToArray returns on a handle that      *)
(* exists: every handle keeps its element sequence across every call.      *)
(***************************************************************************)
SnapshotNeverMutated ==
  [][\A h \in DOMAIN handles :
       /\ h \in DOMAIN handles'
       /\ arrays'[handles'[h]] = arrays[handles[h]]]_vars

\* a sort gave a derived handle another order than its receiver has
SortedCopyDiffers ==
  /\ last.op = "OrderBy"
  /\ ArrOf(last.ret) # ArrOf(last.recv)

(***************************************************************************)
(* C2 as claimed: every call that returns a Queryable returns a handle     *)
(* other than its receiver, with a backing array of its own.               *)
(***************************************************************************)
ReturnedQueryable == last.ret # 0 /\ last.recv # 0

NothingToDo ==
  \/ last.op \in {"SkipLast", "Lead", "Lag"} /\ last.args.n <= 0
  \/ last.op \in {"PadEnd", "PadStart"} /\ Len(ArrOf(last.recv)) >= last.args.length
  \/ last.op = "DefaultIfEmpty" /\ ArrOf(last.recv) # <<>>

CompareValues ==
  {Null, Undefined, Num(9), Num(10), Str(<<9>>), Str(<<1, 1>>), Str(<<10>>)}

NoCall == Call("", 0, <<>>, 0, Undefined, FALSE)

InitCompare ==
  /\ arrays = <<>>
  /\ handles = <<>>
  /\ last = NoCall
  /\ input \in [a : CompareValues, b : CompareValues, c : CompareValues]
  /\ hook = <<>>
  /\ ui = <<>>

Compare ==
  /\ last = NoCall
  /\ LET S == {input.a, input.b, input.c}
     IN last' = Call("_compare", 0, input, 0,
                     [p \in S \X S |-> _compare(p[1], p[2])], FALSE)
  /\ UNCHANGED <<arrays, handles, input, hook, ui>>

NextCompare == Compare

SpecCompare == InitCompare /\ [][NextCompare]_vars

(***************************************************************************)
(* C5: _compare is a total order on null, undefined, numbers and strings:  *)
(* 0 exactly for identical values, opposite signs for (a, b) and (b, a)    *)
(* otherwise, transitive, and null and undefined before every defined      *)
(* value.                                                                  *)
(***************************************************************************)
CompareIsTotalOrder ==
  last.op = "_compare" =>
    LET S == {input.a, input.b, input.c}
        cmp == last.val
    IN /\ \A x, y \in S : (cmp[<<x, y>>] = 0) <=> (x = y)
       /\ \A x, y \in S : x # y =>
            \/ cmp[<<x, y>>] < 0 /\ cmp[<<y, x>>] > 0
            \/ cmp[<<x, y>>] > 0 /\ cmp[<<y, x>>] < 0
       /\ \A x, y, z \in S :
            (cmp[<<x, y>>] < 0 /\ cmp[<<y, z>>] < 0) => cmp[<<x, z>>] < 0
       /\ \A x, y \in S : (IsNullish(x) /\ ~IsNullish(y)) => cmp[<<x, y>>] < 0

(***************************************************************************)
(* SpecSort: From(iterable).OrderBy("a") on objects whose property a is    *)
(* null, the number 10 or one of the strings "9" and "11".                 *)
(***************************************************************************)
MaxSortLen == 3

SortKeys == {Null, Num(10), Str(<<9>>), Str(<<1, 1>>)}
NumberKeys == {Num(1), Num(2)}

\* the arrays of n distinct objects with properties a from A and b from B
ObjectArrays(n, A, B) ==
  {[i \in 1..n |-> Obj(i, ab[i][1], ab[i][2])] : ab \in [1..n -> A \X B]}

InitSort ==
  /\ \E n \in 0..MaxSortLen : \E iterable \in ObjectArrays(n, SortKeys, {Num(1)}) : From(iterable)
  /\ input = [k1 |-> Prop("a")]
  /\ hook = <<>>
  /\ ui = <<>>

NextSort == Len(handles) = 1 /\ OrderBy(1, input.k1)

SpecSort == InitSort /\ [][NextSort]_vars

(***************************************************************************)
(* SpecThenBy: the chain From(iterable).OrderBy(k1).ThenBy(k2) on objects  *)
(* whose properties a and b are the numbers 1 and 2.                       *)
(***************************************************************************)
InitThenBy ==
  /\ \E n \in 0..MaxSortLen :
       \E iterable \in ObjectArrays(n, NumberKeys, NumberKeys) : From(iterable)
  /\ input \in [k1 : {Prop("a"), Prop("b")}, k2 : {Prop("a"), Prop("b")}]
  /\ hook = <<>>
  /\ ui = <<>>

NextThenBy ==
  \/ Len(handles) = 1 /\ OrderBy(1, input.k1)
  \/ Len(handles) = 2 /\ ThenBy(2, input.k2)

SpecThenBy == InitThenBy /\ [][NextThenBy]_vars

\* r holds the elements of s, each as often
IsPermutation(r, s) ==
  /\ Len(r) = Len(s)
  /\ \A x \in Elements(r) \cup Elements(s) :
       Cardinality({i \in 1..Len(r) : r[i] = x}) = Cardinality({i \in 1..Len(s) : s[i] = x})

Key(ks, x) == _toFn(ks, x)

(***************************************************************************)
(* C3: OrderBy(k) gives a permutation of the sequence, ascending under     *)
(* the default comparer on k, elements of comparer-equal keys in their     *)
(* order in the sequence.                                                  *)
(***************************************************************************)
OrderByIsStableSort ==
  last.op = "OrderBy" =>
    LET s == ArrOf(last.recv)
        r == ArrOf(last.ret)
        k == last.args.keySelector
    IN /\ IsPermutation(r, s)
       /\ \A i, j \in 1..Len(r) : i < j => _compare(Key(k, r[i]), Key(k, r[j])) <= 0
       /\ \A i, j \in 1..Len(s) :
            (i < j /\ _compare(Key(k, s[i]), Key(k, s[j])) = 0) =>
              \E p, q \in 1..Len(r) : p < q /\ r[p] = s[i] /\ r[q] = s[j]

(***************************************************************************)
(* C4: OrderBy(k1).ThenBy(k2) gives the sequence ordered by k1 ascending,  *)
(* elements of equal k1 ordered by k2 ascending.                           *)
(***************************************************************************)
ThenByIsSecondaryOrder ==
  (last.op = "ThenBy" /\ Len(handles) = 3) =>
    LET s == ArrOf(1)
        r == ArrOf(last.ret)
    IN /\ IsPermutation(r, s)
       /\ \A i, j \in 1..Len(r) : i < j =>
            /\ _compare(Key(input.k1, r[i]), Key(input.k1, r[j])) <= 0
            /\ _compare(Key(input.k1, r[i]), Key(input.k1, r[j])) = 0
                 => _compare(Key(input.k2, r[i]), Key(input.k2, r[j])) <= 0

(***************************************************************************)
(* SpecQuery: From(iterable) followed by one of Join, LeftJoin, Distinct,  *)
(* Single and SingleOrDefault.  The element at position i is null, the     *)
(* number 1, or the object of identity i whose property a is 1, 2 or       *)
(* undefined.                                                              *)
(***************************************************************************)
MaxQueryLen == 3
MaxInnerLen == 2

QueryElems(i) ==
  {Null, Num(1), Obj(i, Num(1), Null), Obj(i, Num(2), Null), Obj(i, Undefined, Null)}

QueryArrays(n) ==
  UNION {{s \in [1..k -> UNION {QueryElems(i) : i \in 1..k}] : \A i \in 1..k : s[i] \in QueryElems(i)}
           : k \in 0..n}

QueryPredicates ==
  {NoPredicate, Pred({Num(1)}),
   Pred({x \in UNION {QueryElems(i) : i \in 1..MaxQueryLen} : x.t = "object"})}

InitQuery ==
  \E iterable \in QueryArrays(MaxQueryLen) :
    /\ From(iterable)
    /\ input = [iterable |-> iterable]
    /\ hook = <<>>
    /\ ui = <<>>

\* the caller makes one call on the handle From gave it
NextQuery ==
  \/ \E inner \in QueryArrays(MaxInnerLen) :
       last.op = "From" /\ Join(1, inner, Prop("a"), Prop("a"))
  \/ \E inner \in QueryArrays(MaxInnerLen) :
       last.op = "From" /\ LeftJoin(1, inner, Prop("a"), Prop("a"))
  \/ \E ks \in {NoSelector, Prop("a")} : last.op = "From" /\ Distinct(1, ks)
  \/ \E p \in QueryPredicates : last.op = "From" /\ Single(1, p)
  \/ \E d \in {Null, Num(2)}, p \in QueryPredicates :
       last.op = "From" /\ SingleOrDefault(1, d, p)

SpecQuery == InitQuery /\ [][NextQuery]_vars

\* the pairs (p, q) of positions whose keys are equal, and their order: outer first
MatchPairs(outer, inner, ok, ik) ==
  {x \in (1..Len(outer)) \X (1..Len(inner)) : Key(ok, outer[x[1]]) = Key(ik, inner[x[2]])}

Before(x, y) == x[1] < y[1] \/ (x[1] = y[1] /\ x[2] < y[2])

\* the nested-loop inner join: for o in outer, for i in inner, if the keys are equal
NestedLoopJoin(outer, inner, ok, ik) ==
  LET P == MatchPairs(outer, inner, ok, ik)
  IN [n \in 1..Cardinality(P) |->
        LET x == CHOOSE x \in P : Cardinality({y \in P : Before(y, x)}) = n - 1
        IN result(outer[x[1]], inner[x[2]])]

(***************************************************************************)
(* C6: Join gives exactly the rows of the nested-loop inner join, outer    *)
(* elements in their order and the matches of each in inner order.         *)
(***************************************************************************)
JoinIsNestedLoopJoin ==
  last.op = "Join" =>
    ArrOf(last.ret) = NestedLoopJoin(ArrOf(last.recv), last.args.inner,
                                     last.args.outerKey, last.args.innerKey)

\* a join in which one outer element has two matches and another has none
JoinWithTwoMatches ==
  /\ last.op = "Join"
  /\ \E p, q \in 1..Len(ArrOf(last.recv)) :
       /\ Cardinality({x \in MatchPairs(ArrOf(last.recv), last.args.inner,
                                        last.args.outerKey, last.args.innerKey) : x[1] = p}) = 2
       /\ Cardinality({x \in MatchPairs(ArrOf(last.recv), last.args.inner,
                                        last.args.outerKey, last.args.innerKey) : x[1] = q}) = 0

\* the rows of a left join: the matching pairs, and (p, 0) for an outer element without a match
LeftPairs(outer, inner, ok, ik) ==
  MatchPairs(outer, inner, ok, ik)
    \cup {<<p, 0>> : p \in {p \in 1..Len(outer) :
                              \A q \in 1..Len(inner) : Key(ok, outer[p]) # Key(ik, inner[q])}}

LeftJoinRowsAsClaimed(r, outer, inner, ok, ik) ==
  LET P == LeftPairs(outer, inner, ok, ik)
  IN /\ Len(r) = Cardinality(P)
     /\ \A x \in P :
          r[1 + Cardinality({y \in P : Before(y, x)})] =
            result(outer[x[1]], IF x[2] = 0 THEN Null ELSE inner[x[2]])
     /\ \A p \in 1..Len(outer) : \E n \in 1..Len(r) : r[n].outer = outer[p]

NonNullInner(r) == SelectSeq(r, LAMBDA x : x.inner # Null)

(***************************************************************************)
(* C7 as claimed: LeftJoin gives, for each outer element in order, a row   *)
(* per matching inner element in inner order, or one row with null when    *)
(* none matches; every outer element appears; and the rows with a non-null *)
(* inner are exactly the rows of Join.                                     *)
(***************************************************************************)
LeftJoinNonNullRowsAreJoin ==
  last.op = "LeftJoin" =>
    LET outer == ArrOf(last.recv)
        r == ArrOf(last.ret)
    IN /\ LeftJoinRowsAsClaimed(r, outer, last.args.inner, last.args.outerKey, last.args.innerKey)
       /\ NonNullInner(r) =
            NestedLoopJoin(outer, last.args.inner, last.args.outerKey, last.args.innerKey)

(***************************************************************************)
(* C7 amended: as claimed, but the rows with a non-null inner are exactly  *)
(* the rows of Join with a non-null inner (a null element of inner can     *)
(* match, and its rows have a null inner in both joins).                   *)
(***************************************************************************)
LeftJoinNonNullRowsAreJoinNonNull ==
  last.op = "LeftJoin" =>
    LET outer == ArrOf(last.recv)
        r == ArrOf(last.ret)
    IN /\ LeftJoinRowsAsClaimed(r, outer, last.args.inner, last.args.outerKey, last.args.innerKey)
       /\ NonNullInner(r) =
            NonNullInner(NestedLoopJoin(outer, last.args.inner,
                                        last.args.outerKey, last.args.innerKey))

\* a left join with a matched outer element and an unmatched one, paired with null
LeftJoinWithUnmatched ==
  /\ last.op = "LeftJoin"
  /\ \E n, m \in 1..Len(ArrOf(last.ret)) :
       /\ ArrOf(last.ret)[n].inner # Null
       /\ ArrOf(last.ret)[m].inner = Null
       /\ \A q \in 1..Len(last.args.inner) :
            Key(last.args.outerKey, ArrOf(last.ret)[m].outer)
              # Key(last.args.innerKey, last.args.inner[q])

\* the positions of the first element of each key, and the elements there, in order
FirstPositions(s, ks) ==
  {i \in 1..Len(s) : \A j \in 1..(i - 1) : Key(ks, s[j]) # Key(ks, s[i])}

FirstOccurrences(s, ks) ==
  LET I == FirstPositions(s, ks)
  IN [n \in 1..Cardinality(I) |->
        s[CHOOSE i \in I : Cardinality({j \in I : j < i}) = n - 1]]

(***************************************************************************)
(* C8: Distinct gives one element per distinct key, the first of the       *)
(* sequence with that key, in the order of first occurrence; without a     *)
(* selector the key is the element.                                        *)
(***************************************************************************)
DistinctKeepsFirstOccurrences ==
  last.op = "Distinct" =>
    /\ ArrOf(last.ret) = FirstOccurrences(ArrOf(last.recv), last.args.keySelector)
    /\ last.args.keySelector = NoSelector =>
         /\ \A i, j \in 1..Len(ArrOf(last.ret)) :
              i # j => ArrOf(last.ret)[i] # ArrOf(last.ret)[j]
         /\ Elements(ArrOf(last.ret)) = Elements(ArrOf(last.recv))

\* a Distinct by key that dropped a later element of another identity
DistinctDroppedLater ==
  /\ last.op = "Distinct"
  /\ last.args.keySelector # NoSelector
  /\ Len(ArrOf(last.ret)) = 2
  /\ Len(ArrOf(last.recv)) = 3
  /\ ArrOf(last.recv)[3] # ArrOf(last.recv)[1]
  /\ ArrOf(last.recv)[3] # ArrOf(last.recv)[2]

\* the predicate holds of x (an absent predicate of everything)
Holds(predicate, x) == predicate.kind = "null" \/ x \in predicate.holds

MatchCount(s, predicate) == Cardinality({i \in 1..Len(s) : Holds(predicate, s[i])})

(***************************************************************************)
(* C9: Single returns the element when exactly one element matches, and    *)
(* throws when none or more than one does; the sequence is left as it was. *)
(***************************************************************************)
SingleReturnsOnlyMatch ==
  last.op = "Single" =>
    LET s == ArrOf(last.recv)
        n == MatchCount(s, last.args.predicate)
    IN /\ n = 1 => (~last.err /\ \E i \in 1..Len(s) :
                      Holds(last.args.predicate, s[i]) /\ last.val = s[i])
       /\ n # 1 => last.err
       /\ s = input.iterable

\* Single threw because two elements matched a predicate
SingleThrewOnTwo ==
  /\ last.op = "Single"
  /\ last.args.predicate # NoPredicate
  /\ MatchCount(ArrOf(last.recv), last.args.predicate) = 2
  /\ last.err

(***************************************************************************)
(* C10: SingleOrDefault returns the default when no element matches, the   *)
(* element when exactly one matches, and throws when more than one does.   *)
(***************************************************************************)
SingleOrDefaultThrowsOnMany ==
  last.op = "SingleOrDefault" =>
    LET s == ArrOf(last.recv)
        n == MatchCount(s, last.args.predicate)
    IN /\ n = 0 => (~last.err /\ last.val = last.args.defaultValue)
       /\ n = 1 => (~last.err /\ \E i \in 1..Len(s) :
                      Holds(last.args.predicate, s[i]) /\ last.val = s[i])
       /\ n > 1 => last.err

\* SingleOrDefault threw on a sequence with two matching elements
SingleOrDefaultThrew ==
  /\ last.op = "SingleOrDefault"
  /\ MatchCount(ArrOf(last.recv), last.args.predicate) > 1
  /\ last.err

(***************************************************************************)
(* Aggregate.  An accumulator is one of three callbacks:                   *)
(*   plus    (acc, x) => acc + x                                           *)
(*   count   (acc, x) => (acc ?? 0) + 1                                    *)
(*   keep    (acc, x) => acc                                               *)
(* The optional parameter seed is given as the sequence of the arguments   *)
(* after the accumulator: empty when the caller passes none.               *)
(***************************************************************************)
\* a + b on numbers, NaN and undefined
Plus(a, b) == IF a.t = "number" /\ b.t = "number" THEN Num(a.n + b.n) ELSE NaN

Accumulators == {"plus", "count", "keep"}

\* accumulator(acc, x)
Apply(accumulator, acc, x) ==
  CASE accumulator = "plus" -> Plus(acc, x)
    [] accumulator = "count" -> Plus(IF IsNullish(acc) THEN Num(0) ELSE acc, Num(1))
    [] accumulator = "keep" -> acc

\* arr.reduce(callback, initialValue)
RECURSIVE reduce(_, _, _)
reduce(arr, callback, initialValue) ==
  IF arr = <<>> THEN initialValue
  ELSE reduce(Tail(arr), callback, Apply(callback, initialValue, Head(arr)))

\* the value of an optional parameter: undefined when the argument is not passed
Optional(rest) == IF rest = <<>> THEN Undefined ELSE rest[1]

Aggregate(h, accumulator, rest) ==
  LET seed == Optional(rest)
      args == [accumulator |-> accumulator, rest |-> rest]
  IN IF seed # Undefined THEN ReturnValue("Aggregate", h, args, reduce(ArrOf(h), accumulator, seed))
     ELSE IF Len(ArrOf(h)) = 0 THEN ReturnValue("Aggregate", h, args, Undefined)
     ELSE ReturnValue("Aggregate", h, args,
                      reduce(slice(ArrOf(h), 1, Len(ArrOf(h))), accumulator, ArrOf(h)[1]))

(***************************************************************************)
(* SpecAggregate: From(iterable).Aggregate(accumulator) and                *)
(* From(iterable).Aggregate(accumulator, seed) on arrays of numbers.       *)
(***************************************************************************)
MaxFoldLen == 3

Seeds == {Undefined, Num(0), Num(5)}

InitAggregate ==
  \E iterable \in SeqsOf(Numbers, MaxFoldLen) :
    /\ From(iterable)
    /\ input = [iterable |-> iterable]
    /\ hook = <<>>
    /\ ui = <<>>

NextAggregate ==
  \/ \E f \in Accumulators : last.op = "From" /\ Aggregate(1, f, <<>>)
  \/ \E f \in Accumulators, seed \in Seeds : last.op = "From" /\ Aggregate(1, f, <<seed>>)

SpecAggregate == InitAggregate /\ [][NextAggregate]_vars

\* the left fold of f over s from z: f(...f(f(z, s[1]), s[2])..., s[n])
RECURSIVE FoldLeft(_, _, _)
FoldLeft(f, z, s) ==
  IF s = <<>> THEN z
  ELSE Apply(f, FoldLeft(f, z, SubSeq(s, 1, Len(s) - 1)), s[Len(s)])

(***************************************************************************)
(* C11: Aggregate(fn, seed) is the left fold of fn over the sequence from  *)
(* seed; Aggregate(fn) is the left fold of fn over elements 2..n from      *)
(* element 1, and undefined, without an error, on the empty sequence.      *)
(***************************************************************************)
AggregateIsLeftFold ==
  last.op = "Aggregate" =>
    /\ ~last.err
    /\ last.args.rest # <<>> =>
         last.val = FoldLeft(last.args.accumulator, last.args.rest[1], input.iterable)
    /\ last.args.rest = <<>> =>
         last.val = IF input.iterable = <<>> THEN Undefined
                    ELSE FoldLeft(last.args.accumulator, input.iterable[1], Tail(input.iterable))

(***************************************************************************)
(* Chunk, Batch and Window.  Their elements are arrays: the value          *)
(* Arr(items) is an array with these items.                                *)
(***************************************************************************)
Arr(items) == [t |-> "array", items |-> items]

\* a loop that keeps only the whole groups
RECURSIVE ChunkLoopWholeGroups(_, _, _)
ChunkLoopWholeGroups(arr, size, i) ==
  IF i < Len(arr) /\ i + size <= Len(arr)
  THEN <<Arr(slice(arr, i, i + size))>> \o ChunkLoopWholeGroups(arr, size, i + size)
  ELSE <<>>

\* for (let i = 0; i < this._arr.length; i += size) out.push(this._arr.slice(i, i + size))
RECURSIVE ChunkLoop(_, _, _)
ChunkLoop(arr, size, i) ==
  IF i < Len(arr)
  THEN <<Arr(slice(arr, i, i + size))>> \o ChunkLoop(arr, size, i + size)
  ELSE <<>>

\* with size <= 0 the loop over a non-empty array never ends: the call does not return
Chunk(h, size) ==
  /\ Len(ArrOf(h)) = 0 \/ size >= 1
  /\ NewQueryable("Chunk", h, [size |-> size], ChunkLoop(ArrOf(h), size, 0))

\* return this.Chunk(size)
Batch(h, size) ==
  /\ Len(ArrOf(h)) = 0 \/ size >= 1
  /\ NewQueryable("Batch", h, [size |-> size], ChunkLoop(ArrOf(h), size, 0))

\* Window without its first line
WindowUnguarded(h, size) ==
  LET arr == ArrOf(h)
      out == [k \in 1..Max2(0, Len(arr) - size + 1) |-> Arr(slice(arr, k - 1, k - 1 + size))]
  IN NewQueryable("Window", h, [size |-> size], out)

\* the loop runs for i = 0 .. length - size; k is i + 1
Window(h, size) ==
  LET arr == ArrOf(h)
      out == [k \in 1..Max2(0, Len(arr) - size + 1) |-> Arr(slice(arr, k - 1, k - 1 + size))]
  IN IF size <= 0 THEN NewQueryable("Window", h, [size |-> size], <<>>)
     ELSE NewQueryable("Window", h, [size |-> size], out)

(***************************************************************************)
(* SpecShape: From(iterable).Chunk(size), .Batch(size) and .Window(size)   *)
(* on arrays of numbers, for the sizes -1 .. MaxShapeLen + 1.               *)
(***************************************************************************)
MaxShapeLen == 3

Sizes == -1..(MaxShapeLen + 1)

InitShape ==
  \E iterable \in SeqsOf(Numbers, MaxShapeLen) :
    /\ From(iterable)
    /\ input = [iterable |-> iterable]
    /\ hook = <<>>
    /\ ui = <<>>

NextShape ==
  \/ \E size \in Sizes : last.op = "From" /\ Chunk(1, size)
  \/ \E size \in Sizes : last.op = "From" /\ Batch(1, size)
  \/ \E size \in Sizes : last.op = "From" /\ Window(1, size)

SpecShape == InitShape /\ [][NextShape]_vars

\* the sequence a call returned
Returned == arrays[handles[last.ret]]

\* the concatenation of the arrays of a sequence of arrays
RECURSIVE Flat(_)
Flat(r) == IF r = <<>> THEN <<>> ELSE Head(r).items \o Flat(Tail(r))

(***************************************************************************)
(* C12: for size >= 1, Chunk(size) and Batch(size) on a sequence of length *)
(* n give ceil(n / size) groups whose concatenation is the sequence; every *)
(* group but the last has size elements, the last between 1 and size.      *)
(***************************************************************************)
ChunkPartitionsInOrder ==
  last.op \in {"Chunk", "Batch"} /\ last.args.size >= 1 =>
    LET r == Returned
        size == last.args.size
        n == Len(input.iterable)
    IN /\ last.ret \notin {0, last.recv}
       /\ Len(r) = (n + size - 1) \div size
       /\ \A k \in DOMAIN r : r[k].t = "array"
       /\ Flat(r) = input.iterable
       /\ \A k \in 1..(Len(r) - 1) : Len(r[k].items) = size
       /\ Len(r) > 0 => Len(r[Len(r)].items) \in 1..size

\* Chunk(2) of three elements: a whole group, then a shorter last group
ChunkWithShortLastGroup ==
  /\ last.op = "Chunk"
  /\ last.args.size = 2
  /\ Len(input.iterable) = 3
  /\ Len(Returned) = 2
  /\ Len(Returned[2].items) = 1

(***************************************************************************)
(* C13: Window(size) on a sequence of length n gives the n - size + 1      *)
(* windows [i, i + size), in ascending i, when 1 <= size <= n, and the     *)
(* empty sequence when size > n or size <= 0.                              *)
(***************************************************************************)
WindowIsSlidingWindows ==
  last.op = "Window" =>
    LET r == Returned
        size == last.args.size
        s == input.iterable
        n == Len(s)
    IN /\ last.ret \notin {0, last.recv}
       /\ 1 <= size /\ size <= n =>
            /\ Len(r) = n - size + 1
            /\ \A k \in DOMAIN r : r[k] = Arr(SubSeq(s, k, k + size - 1))
       /\ size > n \/ size <= 0 => r = <<>>

\* Window(2) of three elements: two overlapping windows
WindowOverlapping ==
  /\ last.op = "Window"
  /\ last.args.size = 2
  /\ Len(input.iterable) = 3
  /\ Len(Returned) = 2
  /\ Returned[1].items[2] = Returned[2].items[1]

(***************************************************************************)
(* From, ToArray and ToList with the caller's arrays on the heap.  The     *)
(* caller keeps the array it gave to From and the arrays ToArray and       *)
(* ToList returned, as references into the heap, and may change them.  A   *)
(* reference is the value Ref(id).                                          *)
(***************************************************************************)
Ref(id) == [t |-> "ref", id |-> id]

\* a constructor that keeps the iterable itself
FromArraySharing(id) ==
  /\ handles' = Append(handles, id)
  /\ last' = Call("From", 0, [iterable |-> Ref(id)], Len(handles) + 1, Undefined, FALSE)
  /\ UNCHANGED <<arrays, input, hook, ui>>

\* Queryable.From(iterable) of the array id: this._arr = Array.from(iterable)
FromArray(id) ==
  /\ arrays' = Append(arrays, arrays[id])
  /\ handles' = Append(handles, Len(arrays) + 1)
  /\ last' = Call("From", 0, [iterable |-> Ref(id)], Len(handles) + 1, Undefined, FALSE)
  /\ UNCHANGED <<input, hook, ui>>

\* a call that returns a new array with these items
ReturnNewArray(op, h, args, items) ==
  /\ arrays' = Append(arrays, items)
  /\ last' = Call(op, h, args, 0, Ref(Len(arrays) + 1), FALSE)
  /\ UNCHANGED <<handles, input, hook, ui>>

\* ToArray, the caller keeping the array returned: [...this._arr]
ToArrayKept(h) == ReturnNewArray("ToArray", h, <<>>, ArrOf(h))

\* return this.ToArray()
ToList(h) == ReturnNewArray("ToList", h, <<>>, ArrOf(h))

\* the arrays the caller holds: the one given to From and those returned to it
Kept == {id \in DOMAIN arrays : id = 1 \/ \A h \in DOMAIN handles : handles[h] # id}

\* the caller's array.push(item) and array.pop()
Push(id, item) ==
  /\ arrays' = [arrays EXCEPT ![id] = Append(@, item)]
  /\ last' = Call("push", 0, [array |-> Ref(id), item |-> item], 0, Undefined, FALSE)
  /\ UNCHANGED <<handles, input, hook, ui>>

Pop(id) ==
  /\ arrays[id] # <<>>
  /\ arrays' = [arrays EXCEPT ![id] = SubSeq(@, 1, Len(@) - 1)]
  /\ last' = Call("pop", 0, [array |-> Ref(id)], 0, Undefined, FALSE)
  /\ UNCHANGED <<handles, input, hook, ui>>

(***************************************************************************)
(* SpecSnapshot: const q = Queryable.From(arr), then ToArray and ToList    *)
(* calls on q, the caller pushing to and popping from arr and the arrays   *)
(* returned.  input.arr is the content of arr when From is called.         *)
(***************************************************************************)
MaxSnapLen == 1
MaxKept == 2

InitSnapshot ==
  \E arr \in SeqsOf(Numbers, MaxSnapLen) :
    /\ arrays = <<arr>>
    /\ handles = <<>>
    /\ last = NoCall
    /\ input = [arr |-> arr]
    /\ hook = <<>>
    /\ ui = <<>>

NextSnapshot ==
  \/ handles = <<>> /\ FromArray(1)
  \/ \E h \in DOMAIN handles : Cardinality(Kept \ {1}) < MaxKept /\ ToArrayKept(h)
  \/ \E h \in DOMAIN handles : Cardinality(Kept \ {1}) < MaxKept /\ ToList(h)
  \/ \E id \in Kept : handles # <<>> /\ Len(arrays[id]) <= MaxSnapLen /\ Push(id, Num(0))
  \/ \E id \in Kept : handles # <<>> /\ Pop(id)

SpecSnapshot == InitSnapshot /\ [][NextSnapshot]_vars

(***************************************************************************)
(* C14: From(arr).ToArray() equals arr element for element, and whatever   *)
(* the caller does afterwards to arr or to an array ToArray or ToList      *)
(* returned, every later ToArray or ToList returns the same elements, in   *)
(* an array of its own.                                                    *)
(***************************************************************************)
ToArrayReturnsSnapshot ==
  last.op \in {"ToArray", "ToList"} =>
    /\ ~last.err
    /\ last.val.id # 1
    /\ \A h \in DOMAIN handles : handles[h] # last.val.id
    /\ arrays[last.val.id] = input.arr

\* ToArray called after the caller changed both arr and an array returned before
ToArrayAfterMutations ==
  /\ last.op = "ToArray"
  /\ arrays[1] # input.arr
  /\ \E id \in Kept \ {1, last.val.id} : arrays[id] # input.arr

(***************************************************************************)
(* The operators that return an element or a number: First, Last,          *)
(* ElementAt, Sum, Average, Max, Min, MaxBy, MinBy.  A number is Num(n),   *)
(* a quotient that is not an integer Quotient(a, b) in lowest terms, or    *)
(* NaN.                                                                    *)
(***************************************************************************)
\* Number(v)
Number(v) == IF IsNumeric(v) THEN Num(ToNumber(v)) ELSE NaN

\* v ?? d
Coalesce(v, d) == IF IsNullish(v) THEN d ELSE v

RECURSIVE GCD(_, _)
GCD(a, b) == IF b = 0 THEN a ELSE GCD(b, a % b)

\* a / b for a number a and a length b > 0
Quotient(a, b) ==
  IF a.t # "number" THEN NaN
  ELSE IF a.n % b = 0 THEN Num(a.n \div b)
  ELSE LET g == GCD(IF a.n < 0 THEN -a.n ELSE a.n, b)
       IN [t |-> "number", n |-> a.n \div g, per |-> b \div g]

\* arr[index]: undefined outside the array
At(arr, index) == IF index >= 0 /\ index < Len(arr) THEN arr[index + 1] ELSE Undefined

\* arr.find(predicate)
find(arr, predicate) ==
  LET kept == SelectSeq(arr, LAMBDA x : x \in predicate.holds)
  IN At(kept, 0)

First(h, predicate) ==
  IF predicate.kind = "null"
  THEN ReturnValue("First", h, [predicate |-> predicate], At(ArrOf(h), 0))
  ELSE ReturnValue("First", h, [predicate |-> predicate], find(ArrOf(h), predicate))

Last(h, predicate) ==
  IF predicate.kind = "null"
  THEN ReturnValue("Last", h, [predicate |-> predicate], At(ArrOf(h), Len(ArrOf(h)) - 1))
  ELSE ReturnValue("Last", h, [predicate |-> predicate], find(reverse(ArrOf(h)), predicate))

ElementAt(h, index) == ReturnValue("ElementAt", h, [index |-> index], At(ArrOf(h), index))

\* selector ?? ((x) => x ?? d), applied to x
SelectOr(selector, d, x) ==
  IF selector.kind = "null" THEN Coalesce(x, d) ELSE _toFn(selector, x)

\* this._arr.reduce((acc, x) => acc + Number(s(x) ?? 0), 0)
RECURSIVE SumFrom(_, _, _)
SumFrom(arr, selector, acc) ==
  IF arr = <<>> THEN acc
  ELSE SumFrom(Tail(arr), selector,
               Plus(acc, Number(Coalesce(SelectOr(selector, Num(0), Head(arr)), Num(0)))))

SumOf(h, selector) == SumFrom(ArrOf(h), selector, Num(0))

Sum(h, selector) == ReturnValue("Sum", h, [selector |-> selector], SumOf(h, selector))

\* Average without its first line
AverageDividing(h, selector) ==
  ReturnValue("Average", h, [selector |-> selector],
              IF Len(ArrOf(h)) = 0 THEN NaN ELSE Quotient(SumOf(h, selector), Len(ArrOf(h))))

Average(h, selector) ==
  IF Len(ArrOf(h)) = 0 THEN ReturnValue("Average", h, [selector |-> selector], Num(0))
  ELSE ReturnValue("Average", h, [selector |-> selector],
                   Quotient(SumOf(h, selector), Len(ArrOf(h))))

\* this._arr.map((x) => Number(s(x) ?? NaN))
Numbered(arr, selector) ==
  [i \in DOMAIN arr |-> Number(Coalesce(SelectOr(selector, NaN, arr[i]), NaN))]

\* Math.max and Math.min of at least one number: NaN when one of them is NaN
MathMax(ns) ==
  IF \E i \in DOMAIN ns : ns[i] = NaN THEN NaN
  ELSE CHOOSE m \in Elements(ns) : \A i \in DOMAIN ns : ns[i].n <= m.n

MathMin(ns) ==
  IF \E i \in DOMAIN ns : ns[i] = NaN THEN NaN
  ELSE CHOOSE m \in Elements(ns) : \A i \in DOMAIN ns : ns[i].n >= m.n

Max(h, selector) ==
  IF Len(ArrOf(h)) = 0 THEN ReturnValue("Max", h, [selector |-> selector], NaN)
  ELSE ReturnValue("Max", h, [selector |-> selector], MathMax(Numbered(ArrOf(h), selector)))

Min(h, selector) ==
  IF Len(ArrOf(h)) = 0 THEN ReturnValue("Min", h, [selector |-> selector], NaN)
  ELSE ReturnValue("Min", h, [selector |-> selector], MathMin(Numbered(ArrOf(h), selector)))

\* the loop of MaxBy (sign 1) and MinBy (sign -1) from position i, with the best item so far
RECURSIVE BestFrom(_, _, _, _, _)
BestFrom(arr, ks, sign, i, best) ==
  IF i > Len(arr) THEN best
  ELSE IF sign * _compare(_toFn(ks, arr[i]), _toFn(ks, best)) > 0
       THEN BestFrom(arr, ks, sign, i + 1, arr[i])
       ELSE BestFrom(arr, ks, sign, i + 1, best)

MaxBy(h, keySelector) ==
  IF Len(ArrOf(h)) = 0 THEN ReturnValue("MaxBy", h, [keySelector |-> keySelector], Undefined)
  ELSE ReturnValue("MaxBy", h, [keySelector |-> keySelector],
                   BestFrom(ArrOf(h), keySelector, 1, 2, ArrOf(h)[1]))

MinBy(h, keySelector) ==
  IF Len(ArrOf(h)) = 0 THEN ReturnValue("MinBy", h, [keySelector |-> keySelector], Undefined)
  ELSE ReturnValue("MinBy", h, [keySelector |-> keySelector],
                   BestFrom(ArrOf(h), keySelector, -1, 2, ArrOf(h)[1]))

(***************************************************************************)
(* SpecEmpty: From(iterable) followed by one call of any operator, on      *)
(* arrays of numbers, the empty one among them.                            *)
(***************************************************************************)
InitEmpty ==
  \E iterable \in SeqsOf(Numbers, MaxLen) :
    /\ From(iterable)
    /\ input = [iterable |-> iterable]
    /\ hook = <<>>
    /\ ui = <<>>

NextEmpty ==
  \/ \E p \in {NoPredicate, Pred({Num(1)})} : last.op = "From" /\ First(1, p)
  \/ \E p \in {NoPredicate, Pred({Num(1)})} : last.op = "From" /\ Last(1, p)
  \/ \E index \in 0..1 : last.op = "From" /\ ElementAt(1, index)
  \/ last.op = "From" /\ Sum(1, NoSelector)
  \/ last.op = "From" /\ Average(1, NoSelector)
  \/ last.op = "From" /\ Max(1, NoSelector)
  \/ last.op = "From" /\ Min(1, NoSelector)
  \/ last.op = "From" /\ MaxBy(1, NoSelector)
  \/ last.op = "From" /\ MinBy(1, NoSelector)
  \/ \E f \in Accumulators : last.op = "From" /\ Aggregate(1, f, <<>>)
  \/ \E f \in Accumulators : last.op = "From" /\ Aggregate(1, f, <<Num(0)>>)
  \/ last.op = "From" /\ Single(1, NoPredicate)
  \/ last.op = "From" /\ SingleOrDefault(1, Null, NoPredicate)
  \/ last.op = "From" /\ ToArray(1)
  \/ last.op = "From" /\ Where(1, Pred({Num(1)}))
  \/ last.op = "From" /\ Select(1, Fn([x \in Numbers |-> Num(1)]))
  \/ last.op = "From" /\ OrderBy(1, NoSelector)
  \/ last.op = "From" /\ OrderByDescending(1, NoSelector)
  \/ last.op = "From" /\ ThenBy(1, NoSelector)
  \/ last.op = "From" /\ ThenByDescending(1, NoSelector)
  \/ last.op = "From" /\ Distinct(1, NoSelector)
  \/ \E n \in Counts : last.op = "From" /\ Skip(1, n)
  \/ \E n \in Counts : last.op = "From" /\ Take(1, n)
  \/ \E n \in Counts : last.op = "From" /\ SkipLast(1, n)
  \/ \E n \in Counts : last.op = "From" /\ TakeLast(1, n)
  \/ \E n \in Counts : last.op = "From" /\ Lead(1, n, Num(1))
  \/ \E n \in Counts : last.op = "From" /\ Lag(1, n, Num(1))
  \/ last.op = "From" /\ Reverse(1)
  \/ last.op = "From" /\ Cast(1)
  \/ \E size \in 0..2 : last.op = "From" /\ Chunk(1, size)
  \/ \E size \in 0..2 : last.op = "From" /\ Batch(1, size)
  \/ \E size \in 0..2 : last.op = "From" /\ Window(1, size)
  \/ last.op = "From" /\ Join(1, <<Num(1)>>, NoSelector, NoSelector)
  \/ last.op = "From" /\ LeftJoin(1, <<Num(1)>>, NoSelector, NoSelector)
  \/ last.op = "From" /\ DefaultIfEmpty(1, Num(2))
  \/ last.op = "From" /\ Append_(1, Num(1))
  \/ last.op = "From" /\ Prepend(1, Num(1))
  \/ \E other \in {<<>>, <<Num(2)>>} : last.op = "From" /\ Concat(1, other)
  \/ \E length \in 0..1 : last.op = "From" /\ PadEnd(1, length, Num(1))
  \/ \E length \in 0..1 : last.op = "From" /\ PadStart(1, length, Num(2))

SpecEmpty == InitEmpty /\ [][NextEmpty]_vars

\* a call on the empty sequence has been made
CalledOnEmpty == last.op # "From" /\ input.iterable = <<>>

\* what the operators that return an element or a number return on the empty sequence
ScalarSentinels ==
  /\ last.op \in {"First", "Last", "ElementAt", "MaxBy", "MinBy"} => last.val = Undefined
  /\ last.op = "Aggregate" /\ last.args.rest = <<>> => last.val = Undefined
  /\ last.op \in {"Max", "Min"} => last.val = NaN
  /\ last.op \in {"Sum", "Average"} => last.val = Num(0)

Added ==
  CASE last.op = "DefaultIfEmpty" -> <<last.args.defaultValue>>
    [] last.op \in {"Append", "Prepend"} -> <<last.args.item>>
    [] last.op = "Concat" -> last.args.other
    [] last.op \in {"PadEnd", "PadStart"} -> fill(last.args.length, last.args.padding)
    [] OTHER -> <<>>

CharAt(s, i) == IF i >= 1 /\ i <= Len(s) THEN SubSeq(s, i, i) ELSE ""

\* s.slice(from) and s.slice(from, to), offsets from 0 within the string
StrSlice(s, from, to) == SubSeq(s, Min2(from, Len(s)) + 1, Min2(to, Len(s)))

startsWith(s, p) == Len(p) <= Len(s) /\ SubSeq(s, 1, Len(p)) = p

endsWith(s, p) == Len(p) <= Len(s) /\ SubSeq(s, Len(s) - Len(p) + 1, Len(s)) = p

LowerLetters == "abcdefghijklmnopqrstuvwxyz"
UpperLetters == "ABCDEFGHIJKLMNOPQRSTUVWXYZ"
DigitChars == {CharAt("0123456789", i) : i \in 1..10}
LetterChars == {CharAt(LowerLetters, i) : i \in 1..26} \cup {CharAt(UpperLetters, i) : i \in 1..26}
WordChars == LetterChars \cup DigitChars \cup {"_"}
IdentStartChars == LetterChars \cup {"_", "$"}
IdentChars == WordChars \cup {"$"}
SpaceChars == {" ", "\n", "\t"}
QuoteChars == {"\"", "'"}

\* c.toLowerCase() of one character, and s.toLowerCase()
LowerChar(c) ==
  IF \E i \in 1..26 : CharAt(UpperLetters, i) = c
  THEN CharAt(LowerLetters, CHOOSE i \in 1..26 : CharAt(UpperLetters, i) = c)
  ELSE c

RECURSIVE toLowerCase(_)
toLowerCase(s) ==
  IF s = "" THEN ""
  ELSE LowerChar(CharAt(s, 1)) \o toLowerCase(SubSeq(s, 2, Len(s)))

\* String(n) for 0 <= n < 100
ToStr(n) ==
  IF n < 10 THEN CharAt("0123456789", n + 1)
  ELSE CharAt("0123456789", (n \div 10) + 1) \o CharAt("0123456789", (n % 10) + 1)

\* the position of the last character of the longest run of characters of C that
\* starts at position i (i - 1 when the run is empty): a greedy repetition
RunEnd(s, i, C) ==
  LET ends == {j \in (i - 1)..Len(s) : \A k \in i..j : CharAt(s, k) \in C}
  IN CHOOSE j \in ends : \A k \in ends : k <= j

\* the position after the literal lit at position p, 0 when it is not there or p is 0
Lit(s, p, lit) ==
  IF p # 0 /\ SubSeq(s, Min2(p, Len(s) + 1), Min2(p + Len(lit) - 1, Len(s))) = lit
  THEN p + Len(lit) ELSE 0

\* the position after the white space at position p
SkipSpaces(s, p) == IF p = 0 THEN 0 ELSE RunEnd(s, p, SpaceChars) + 1

\* the position after the word at position p, 0 when no word character is there
WordEnd(s, p) ==
  IF p = 0 \/ RunEnd(s, p, WordChars) < p THEN 0 ELSE RunEnd(s, p, WordChars) + 1

\* s.indexOf(c) for a character c, counted from 1; 0 when absent
IndexOfChar(s, C) ==
  IF \E i \in 1..Len(s) : CharAt(s, i) \in C
  THEN CHOOSE i \in 1..Len(s) : CharAt(s, i) \in C /\ \A k \in 1..(i - 1) : CharAt(s, k) \notin C
  ELSE 0

\* s.split(separator), the separator being any one character of C
RECURSIVE Split(_, _)
Split(s, C) ==
  LET i == IndexOfChar(s, C)
  IN IF i = 0 THEN <<s>>
     ELSE <<SubSeq(s, 1, i - 1)>> \o Split(SubSeq(s, i + 1, Len(s)), C)

(***************************************************************************)
(* The regular expressions of findSuggestions.  All but the snippet        *)
(* trigger start with group 1, the path grammar: the literal data, then   *)
(* any number of segments, each a dot and an identifier or an index in     *)
(* brackets.  It is greedy: it gives back whole segments only where what   *)
(* follows it in the expression needs them (the method name of a           *)
(* callback).                                                              *)
(***************************************************************************)
SetMax(S) == CHOOSE x \in S : \A y \in S : y <= x
SetMin(S) == CHOOSE x \in S : \A y \in S : x <= y

\* String.prototype.match found nothing
NoMatch == Null

\* the positions where the literal data starts
DataStarts(s) == {i \in 1..Len(s) : Lit(s, i, "data") # 0}

\* the last position of a segment .identifier or [digits] that starts at position i, 0 if none does
SegmentEnd(s, i) ==
  IF CharAt(s, i) = "." /\ CharAt(s, i + 1) \in IdentStartChars
  THEN RunEnd(s, i + 2, IdentChars)
  ELSE IF /\ CharAt(s, i) = "["
          /\ RunEnd(s, i + 1, DigitChars) > i
          /\ CharAt(s, RunEnd(s, i + 1, DigitChars) + 1) = "]"
       THEN RunEnd(s, i + 1, DigitChars) + 1
       ELSE 0

\* the positions where group 1 can end, when e is such a position
RECURSIVE PathEnds(_, _)
PathEnds(s, e) ==
  {e} \cup (IF SegmentEnd(s, e + 1) = 0 THEN {} ELSE PathEnds(s, SegmentEnd(s, e + 1)))

\* a slash at the very end only
snippetMatchBare(s) ==
  IF endsWith(s, "/") THEN [full |-> "/"] ELSE NoMatch

\* a slash followed by white space up to the end: match[0]
snippetMatch(s) ==
  LET slash == SetMax({0} \cup {k \in 1..Len(s) : CharAt(s, k) = "/"})
  IN IF slash # 0 /\ \A k \in (slash + 1)..Len(s) : CharAt(s, k) \in SpaceChars
     THEN [full |-> SubSeq(s, slash, Len(s))]
     ELSE NoMatch

\* the characters from position p to the end are all in C
RestIn(s, p, C) == \A k \in p..Len(s) : CharAt(s, k) \in C

MethodNames == <<"map", "filter", "find", "forEach", "flatMap">>

\* .method ( param => param . and word characters and dots up to the end, after group 1 ending at e
SingleParamTail(s, e) ==
  LET p1 == Lit(s, e + 1, ".")
      named == {k \in DOMAIN MethodNames : Lit(s, Lit(s, SkipSpaces(s, Lit(s, p1, MethodNames[k])), "("), "") # 0}
      p2 == IF named = {} THEN 0 ELSE Lit(s, p1, MethodNames[SetMin(named)])
      p4 == SkipSpaces(s, Lit(s, SkipSpaces(s, p2), "("))
      p5 == WordEnd(s, p4)
      param == SubSeq(s, p4, p5 - 1)
      p6 == Lit(s, SkipSpaces(s, p5), "=>")
      p8 == Lit(s, Lit(s, SkipSpaces(s, p6), param), ".")
  IN IF p5 # 0 /\ p8 # 0 /\ RestIn(s, p8, WordChars \cup {"."})
     THEN [afterParam |-> SubSeq(s, p8, Len(s))] ELSE NoMatch

\* .reduce ( ( acc , param ) => param . and word characters and dots up to the end
ReduceTail(s, e) ==
  LET p1 == SkipSpaces(s, Lit(s, SkipSpaces(s, Lit(s, SkipSpaces(s, Lit(s, e + 1, ".reduce")), "(")), "("))
      p2 == WordEnd(s, p1)
      p3 == SkipSpaces(s, Lit(s, SkipSpaces(s, p2), ","))
      p4 == WordEnd(s, p3)
      param == SubSeq(s, p3, p4 - 1)
      p5 == Lit(s, SkipSpaces(s, Lit(s, SkipSpaces(s, p4), ")")), "=>")
      p6 == Lit(s, Lit(s, SkipSpaces(s, p5), param), ".")
  IN IF p2 # 0 /\ p4 # 0 /\ p6 # 0 /\ RestIn(s, p6, WordChars \cup {"."})
     THEN [afterParam |-> SubSeq(s, p6, Len(s))] ELSE NoMatch

\* .sort ( ( a , b ) => a . or b . and word characters and dots up to the end
SortTail(s, e) ==
  LET p1 == SkipSpaces(s, Lit(s, SkipSpaces(s, Lit(s, SkipSpaces(s, Lit(s, e + 1, ".sort")), "(")), "("))
      p2 == WordEnd(s, p1)
      first == SubSeq(s, p1, p2 - 1)
      p3 == SkipSpaces(s, Lit(s, SkipSpaces(s, p2), ","))
      p4 == WordEnd(s, p3)
      second == SubSeq(s, p3, p4 - 1)
      p5 == SkipSpaces(s, Lit(s, SkipSpaces(s, Lit(s, SkipSpaces(s, p4), ")")), "=>"))
      viaFirst == Lit(s, Lit(s, p5, first), ".")
      viaSecond == Lit(s, Lit(s, p5, second), ".")
      p6 == IF viaFirst # 0 /\ RestIn(s, viaFirst, WordChars \cup {"."}) THEN viaFirst ELSE viaSecond
  IN IF p2 # 0 /\ p4 # 0 /\ p6 # 0 /\ RestIn(s, p6, WordChars \cup {"."})
     THEN [afterParam |-> SubSeq(s, p6, Len(s))] ELSE NoMatch

\* the match of the entry at the smallest position among the entries that match: a
\* regular expression matches at the leftmost position where it can
FirstMatch(entries) ==
  LET matching == {x \in entries : x.m # NoMatch}
  IN IF matching = {} THEN NoMatch
     ELSE (CHOOSE x \in matching : \A y \in matching : x.at <= y.at).m

\* the match of the entry at the greatest position among the entries that match: a greedy
\* group gives back no more than it must
LastMatch(entries) ==
  LET matching == {x \in entries : x.m # NoMatch}
  IN IF matching = {} THEN NoMatch
     ELSE (CHOOSE x \in matching : \A y \in matching : x.at >= y.at).m

\* group 1 and the last group of a callback pattern whose tail matched
CallbackGroups(arrayPath, tail) ==
  IF tail = NoMatch THEN NoMatch
  ELSE [arrayPath |-> arrayPath, afterParam |-> tail.afterParam]

\* a callback expression at position i: group 1 gives back segments until the tail matches
SingleParamAt(s, i) ==
  LastMatch({[at |-> e, m |-> CallbackGroups(SubSeq(s, i, e), SingleParamTail(s, e))] :
               e \in PathEnds(s, i + 3)})

ReduceAt(s, i) ==
  LastMatch({[at |-> e, m |-> CallbackGroups(SubSeq(s, i, e), ReduceTail(s, e))] :
               e \in PathEnds(s, i + 3)})

SortAt(s, i) ==
  LastMatch({[at |-> e, m |-> CallbackGroups(SubSeq(s, i, e), SortTail(s, e))] :
               e \in PathEnds(s, i + 3)})

singleParamMatch(s) == FirstMatch({[at |-> i, m |-> SingleParamAt(s, i)] : i \in DataStarts(s)})
reduceMatch(s) == FirstMatch({[at |-> i, m |-> ReduceAt(s, i)] : i \in DataStarts(s)})
sortMatch(s) == FirstMatch({[at |-> i, m |-> SortAt(s, i)] : i \in DataStarts(s)})

\* the first of three matches that is one
FirstMatched(single, reduced, sorted) ==
  IF single # NoMatch THEN single
  ELSE IF reduced # NoMatch THEN reduced
  ELSE sorted

callbackMatch(s) == FirstMatched(singleParamMatch(s), reduceMatch(s), sortMatch(s))

\* group 1, an opening bracket, a quote and characters other than quotes up to the end, at position i
BracketAt(s, i) ==
  LET e == SetMax(PathEnds(s, i + 3))
      q == Lit(s, e + 1, "[")
  IN IF q # 0 /\ CharAt(s, q) \in QuoteChars /\ \A k \in (q + 1)..Len(s) : CharAt(s, k) \notin QuoteChars
     THEN [full |-> SubSeq(s, i, Len(s)), basePath |-> SubSeq(s, i, e),
           quote |-> CharAt(s, q), partialKey |-> SubSeq(s, q + 1, Len(s))]
     ELSE NoMatch

bracketMatch(s) == FirstMatch({[at |-> i, m |-> BracketAt(s, i)] : i \in DataStarts(s)})

\* group 1, an optional dot and an optional identifier up to the end, at position i
PathAt(s, i) ==
  LET e == SetMax(PathEnds(s, i + 3))
      p == IF CharAt(s, e + 1) = "." THEN e + 2 ELSE e + 1
  IN IF p > Len(s) \/ (CharAt(s, p) \in IdentStartChars /\ RunEnd(s, p + 1, IdentChars) = Len(s))
     THEN [full |-> SubSeq(s, i, Len(s)), basePath |-> SubSeq(s, i, e),
           partialKey |-> SubSeq(s, p, Len(s))]
     ELSE NoMatch

pathMatch(s) == FirstMatch({[at |-> i, m |-> PathAt(s, i)] : i \in DataStarts(s)})

(***************************************************************************)
(* JSON documents.  A value is null, a number Num(n), a string Text(s),    *)
(* an array Arr(items) or an object Rec(keys, vals) with its keys in       *)
(* insertion order; a property of an array that is a method is Function.   *)
(***************************************************************************)
Text(s) == [t |-> "text", s |-> s]
Rec(keys, vals) == [t |-> "record", keys |-> keys, vals |-> vals]
Function == [t |-> "function"]
Boolean(b) == [t |-> "boolean", b |-> b]

\* typeof value
TypeOf(value) ==
  CASE value.t \in {"null", "record", "array"} -> "object"
    [] value.t = "text" -> "string"
    [] value.t \in {"number", "NaN"} -> "number"
    [] value.t = "function" -> "function"
    [] value.t = "boolean" -> "boolean"
    [] OTHER -> "undefined"

getType(value) ==
  IF value = Null THEN "null"
  ELSE IF value.t = "array" THEN "array"
  ELSE TypeOf(value)

\* a value that is not null and of type object but not an array
IsPlainObject(value) == value.t = "record"

IsAllDigits(p) == p # "" /\ \A k \in 1..Len(p) : CharAt(p, k) \in DigitChars

RECURSIVE ParseDigits(_)
ParseDigits(p) ==
  IF p = "" THEN 0
  ELSE 10 * ParseDigits(SubSeq(p, 1, Len(p) - 1))
       + (CHOOSE d \in 0..9 : CharAt("0123456789", d + 1) = CharAt(p, Len(p)))

ArrayMethods == {"map", "filter", "find", "reduce", "forEach", "flatMap", "sort"}

\* current[p] for an object or an array current and a property name p
Member(current, p) ==
  IF current.t = "record"
  THEN IF \E k \in DOMAIN current.keys : current.keys[k] = p
       THEN current.vals[CHOOSE k \in DOMAIN current.keys : current.keys[k] = p]
       ELSE Undefined
  ELSE IF p = "length" THEN Num(Len(current.items))
  ELSE IF p \in ArrayMethods THEN Function
  ELSE IF IsAllDigits(p) THEN At(current.items, ParseDigits(p))
  ELSE Undefined

\* current[Number(p)] for a name p of digits: the property of that number in canonical form
MemberAt(current, p) == Member(current, ToStr(ParseDigits(p)))

\* the loop of getValueAtPathFromObj over the parts from position i
RECURSIVE WalkParts(_, _, _)
WalkParts(current, parts, i) ==
  IF i > Len(parts) THEN current
  ELSE IF IsNullish(current) \/ TypeOf(current) # "object" THEN Undefined
  ELSE IF IsAllDigits(parts[i]) THEN WalkParts(MemberAt(current, parts[i]), parts, i + 1)
  ELSE WalkParts(Member(current, parts[i]), parts, i + 1)

getValueAtPathFromObj(obj, path) ==
  IF path = "" THEN obj
  ELSE WalkParts(obj, SelectSeq(Split(path, {".", "[", "]"}), LAMBDA p : p # ""), 1)

getValueAtPath(root, path) ==
  LET rest == IF startsWith(path, "data.") THEN SubSeq(path, 6, Len(path))
              ELSE IF startsWith(path, "data") THEN SubSeq(path, 5, Len(path))
              ELSE path
  IN IF path = "" \/ path = "data" THEN root
     ELSE IF rest = "" THEN root
     ELSE getValueAtPathFromObj(root, rest)

Suggestion(path, value, type, displayPath) ==
  [path |-> path, value |-> value, type |-> type, displayPath |-> displayPath]

\* Object.keys(value)
Keys(value) == value.keys

getKeysSuggestions(value, partialKey) ==
  IF IsNullish(value) \/ TypeOf(value) # "object" \/ value.t = "array" THEN <<>>
  ELSE LET lower == toLowerCase(partialKey)
           filtered == IF partialKey # ""
                       THEN SelectSeq(Keys(value), LAMBDA k : startsWith(toLowerCase(k), lower))
                       ELSE Keys(value)
       IN [i \in DOMAIN filtered |->
             Suggestion(filtered[i], Member(value, filtered[i]),
                        getType(Member(value, filtered[i])), filtered[i])]

\* the concatenation of a sequence of sequences
RECURSIVE ConcatAll(_)
ConcatAll(ss) == IF ss = <<>> THEN <<>> ELSE Head(ss) \o ConcatAll(Tail(ss))

\* the suggestions getAllPaths adds for an array: length and the methods
ArrayMemberPaths(obj, prefix) ==
  <<Suggestion(prefix \o ".length", Num(Len(obj.items)), "number", "length"),
    Suggestion(prefix \o ".map()", Text("function"), "method", "map()"),
    Suggestion(prefix \o ".filter()", Text("function"), "method", "filter()"),
    Suggestion(prefix \o ".find()", Text("function"), "method", "find()"),
    Suggestion(prefix \o ".reduce()", Text("function"), "method", "reduce()"),
    Suggestion(prefix \o ".forEach()", Text("function"), "method", "forEach()")>>

RECURSIVE getAllPaths(_, _)
getAllPaths(obj, prefix) ==
  IF IsNullish(obj) THEN <<>>
  ELSE IF TypeOf(obj) # "object" THEN <<>>
  ELSE IF obj.t = "array"
  THEN LET items == slice(obj.items, 0, 3)
       IN ArrayMemberPaths(obj, prefix) \o
          ConcatAll([index \in DOMAIN items |->
            LET item == items[index]
                path == prefix \o "[" \o ToStr(index - 1) \o "]"
            IN <<Suggestion(path, item, getType(item), "[" \o ToStr(index - 1) \o "]")>> \o
               (IF TypeOf(item) = "object" /\ item # Null THEN getAllPaths(item, path) ELSE <<>>)])
  ELSE ConcatAll([k \in DOMAIN obj.keys |->
         LET value == obj.vals[k]
             newPath == prefix \o "." \o obj.keys[k]
         IN <<Suggestion(newPath, value, getType(value), obj.keys[k])>> \o
            (IF TypeOf(value) = "object" /\ value # Null THEN getAllPaths(value, newPath) ELSE <<>>)])

\* the fixed catalog of code snippets; the backquotes of the one template literal are
\* written as single quotes
CODE_SNIPPETS == <<
  Suggestion("Dump(data)",
             Null, "snippet", "Dump(data) - show full JSON"),
  Suggestion("Dump(data.user)",
             Null, "snippet", "Dump(data.user) - show user object"),
  Suggestion("Dump(Object.keys(data))",
             Null, "snippet", "Object.keys(data) - top-level keys"),
  Suggestion("Dump(Object.entries(data))",
             Null, "snippet", "Object.entries(data) - key/value pairs"),
  Suggestion("const titles = data.posts.map(p => p.title);\nDump(titles)",
             Null, "snippet", "Map: get all post titles"),
  Suggestion("const items = data.posts.map(p => ({ id: p.id, title: p.title }));\nDump(items)",
             Null, "snippet", "Map: pick id and title from posts"),
  Suggestion("const names = data.posts.map((p, i) => '${i}: ${p.title}');\nDump(names)",
             Null, "snippet", "Map: index + title"),
  Suggestion("const filtered = data.posts.filter(p => p.id > 0);\nDump(filtered)",
             Null, "snippet", "Filter posts by id"),
  Suggestion("const found = data.posts.find(p => p.id === 1);\nDump(found)",
             Null, "snippet", "Find post by id"),
  Suggestion("const first = data.posts[0];\nDump(first)",
             Null, "snippet", "First item in array"),
  Suggestion("const count = data.posts.reduce((acc, p) => acc + 1, 0);\nDump(count)",
             Null, "snippet", "Count items in array"),
  Suggestion("const sum = data.posts.reduce((acc, p) => acc + (p.id ?? 0), 0);\nDump(sum)",
             Null, "snippet", "Sum numeric field (e.g. id)"),
  Suggestion("const sorted = [...data.posts].sort((a, b) => (a.id ?? 0) - (b.id ?? 0));\nDump(sorted)",
             Null, "snippet", "Sort array by id"),
  Suggestion("const byTitle = [...data.posts].sort((a, b) => (a.title || \"\").localeCompare(b.title || \"\"));\nDump(byTitle)",
             Null, "snippet", "Sort array by title"),
  Suggestion("Dump(data.user?.name)",
             Null, "snippet", "Safe access: user name"),
  Suggestion("Dump(data.settings?.theme)",
             Null, "snippet", "Safe access: nested setting"),
  Suggestion("Dump(JSON.stringify(data, null, 2))",
             Null, "snippet", "Pretty-print JSON string"),
  Suggestion("const flat = data.posts.flatMap(p => [p.id, p.title]);\nDump(flat)",
             Null, "snippet", "FlatMap: flatten id + title")>>

(***************************************************************************)
(* The hook useAutocomplete(jsonData).  Its state is the record hook:      *)
(* isOpen, suggestions, selectedIndex, triggerPosition and                 *)
(* callbackReplaceRange.  jsonData is input.jsonData.                      *)
(***************************************************************************)
HookInit ==
  [isOpen |-> FALSE, suggestions |-> <<>>, selectedIndex |-> 0,
   triggerPosition |-> [start |-> 0, end |-> 0], callbackReplaceRange |-> Null]

\* the state after setSuggestions, setSelectedIndex(0), setTriggerPosition, setIsOpen(true)
Opened(suggestions, start, end, replaceRange) ==
  [isOpen |-> TRUE, suggestions |-> suggestions, selectedIndex |-> 0,
   triggerPosition |-> [start |-> start, end |-> end], callbackReplaceRange |-> replaceRange]

\* the state after setCallbackReplaceRange(null) alone
LeftOpen(h) == [h EXCEPT !.callbackReplaceRange = Null]

\* the state after setCallbackReplaceRange(null) and setIsOpen(false)
Closed(h) == [h EXCEPT !.isOpen = FALSE, !.callbackReplaceRange = Null]

\* a value that is not falsy
Truthy(v) == ~IsNullish(v) /\ v \notin {Num(0), NaN, Text(""), Boolean(FALSE)}

\* the items whose key occurs for the first time, from position i on
RECURSIVE KeepFirst(_, _, _, _)
KeepFirst(items, keys, i, seen) ==
  IF i > Len(items) THEN <<>>
  ELSE IF keys[i] \in seen THEN KeepFirst(items, keys, i + 1, seen)
  ELSE <<items[i]>> \o KeepFirst(items, keys, i + 1, seen \cup {keys[i]})

\* the keys of the elements in the order a Set receives them
MergedKeys(elements) ==
  LET all == ConcatAll([i \in DOMAIN elements |-> Keys(elements[i])])
  IN KeepFirst(all, all, 1, {})

\* s.lastIndexOf("."), counted from 1; 0 when absent
LastDot(s) == SetMax({0} \cup {k \in 1..Len(s) : CharAt(s, k) = "."})

\* basePath and partialKey of what follows the parameter
SplitAfterParam(afterParam) ==
  IF endsWith(afterParam, ".")
  THEN [basePath |-> SubSeq(afterParam, 1, Len(afterParam) - 1), partialKey |-> ""]
  ELSE IF LastDot(afterParam) = 0
  THEN [basePath |-> "", partialKey |-> afterParam]
  ELSE [basePath |-> SubSeq(afterParam, 1, LastDot(afterParam) - 1),
        partialKey |-> SubSeq(afterParam, LastDot(afterParam) + 1, Len(afterParam))]

\* keysSuggestions of the callback context; empty where the code does not reach it
CallbackSuggestions(jsonData, match) ==
  LET arr == getValueAtPath(jsonData, match.arrayPath)
      elements == SelectSeq(slice(arr.items, 0, 10), IsPlainObject)
      mergedKeys == MergedKeys(elements)
      first == elements[1]
      basePath == SplitAfterParam(match.afterParam).basePath
      partialKey == SplitAfterParam(match.afterParam).partialKey
      subValue == IF basePath # "" THEN getValueAtPathFromObj(first, basePath) ELSE first
      lower == toLowerCase(partialKey)
      kept == SelectSeq(mergedKeys, LAMBDA k : startsWith(toLowerCase(k), lower))
  IN IF arr.t # "array" THEN <<>>
     ELSE IF Len(arr.items) = 0 \/ elements = <<>> THEN <<>>
     ELSE IF basePath = "" /\ mergedKeys # <<>>
     THEN [i \in DOMAIN kept |->
             Suggestion(kept[i], Member(first, kept[i]), getType(Member(first, kept[i])), kept[i])]
     ELSE getKeysSuggestions(subValue, partialKey)

\* suggestion.path.slice(basePath.length)
Remaining(s, basePath) == SubSeq(s.path, Len(basePath) + 1, Len(s.path))

\* group 1 of remaining.match of an index in brackets at the start; "" when there is no match
NumMatch(remaining) ==
  IF /\ CharAt(remaining, 1) = "["
     /\ RunEnd(remaining, 2, DigitChars) >= 2
     /\ CharAt(remaining, RunEnd(remaining, 2, DigitChars) + 1) = "]"
  THEN SubSeq(remaining, 2, RunEnd(remaining, 2, DigitChars))
  ELSE ""

ImmediateChild(remaining) ==
  LET childPart == IF startsWith(remaining, ".") THEN SubSeq(remaining, 2, Len(remaining))
                   ELSE remaining
  IN Split(childPart, {".", "["})[1]

\* the filter of the bracket context
BracketKeeps(s, basePath, partialKey) ==
  LET remaining == Remaining(s, basePath)
  IN /\ startsWith(s.path, basePath)
     /\ startsWith(remaining, ".") \/ startsWith(remaining, "[")
     /\ IF startsWith(remaining, "[") /\ NumMatch(remaining) # ""
        THEN partialKey = "" \/ startsWith(NumMatch(remaining), partialKey)
        ELSE startsWith(toLowerCase(ImmediateChild(remaining)), toLowerCase(partialKey))

\* the filter of the dot context
DotKeeps(s, basePath, partialKey) ==
  LET remaining == Remaining(s, basePath)
  IN /\ startsWith(s.path, basePath)
     /\ startsWith(remaining, ".") \/ startsWith(remaining, "[")
     /\ IF startsWith(remaining, ".")
        THEN startsWith(toLowerCase(ImmediateChild(remaining)), toLowerCase(partialKey))
        ELSE partialKey = "" \/ startsWith(remaining, "[" \o partialKey)

\* the key under which a kept suggestion enters uniqueSuggestions; "" when it is skipped
ChildKey(s, basePath) ==
  LET remaining == Remaining(s, basePath)
  IN IF startsWith(remaining, ".") THEN Split(SubSeq(remaining, 2, Len(remaining)), {".", "["})[1]
     ELSE IF NumMatch(remaining) # "" THEN "[" \o NumMatch(remaining) \o "]"
     ELSE ""

\* has a kept suggestion an entry in uniqueSuggestions
HasChildKey(s, basePath) ==
  startsWith(Remaining(s, basePath), ".") \/ NumMatch(Remaining(s, basePath)) # ""

\* key.replace of every quote character by a backslash and the quote
RECURSIVE Escape(_, _)
Escape(key, quote) ==
  IF key = "" THEN ""
  ELSE (IF CharAt(key, 1) = quote THEN "\\" \o quote ELSE CharAt(key, 1))
       \o Escape(SubSeq(key, 2, Len(key)), quote)

\* the kept suggestions that enter uniqueSuggestions: the first of every key, in order
UniqueSuggestions(filtered, basePath) ==
  LET entered == SelectSeq(filtered, LAMBDA s : HasChildKey(s, basePath))
      keys == [i \in DOMAIN entered |-> ChildKey(entered[i], basePath)]
  IN KeepFirst(entered, keys, 1, {})

ChildPath(s, basePath) ==
  basePath \o (IF startsWith(Remaining(s, basePath), "[") THEN ChildKey(s, basePath)
               ELSE "." \o ChildKey(s, basePath))

BracketEntry(s, basePath, quote) ==
  LET key == ChildKey(s, basePath)
  IN [path |-> ChildPath(s, basePath), value |-> s.value, type |-> s.type, displayPath |-> key,
      insertPath |-> IF startsWith(key, "[") THEN basePath \o key
                     ELSE basePath \o "[" \o quote \o Escape(key, quote) \o quote \o "]"]

DotEntry(s, basePath) ==
  [path |-> ChildPath(s, basePath), value |-> s.value, type |-> s.type,
   displayPath |-> ChildKey(s, basePath)]

\* allPaths, the memo of getAllPaths(jsonData) under the prefix data
allPaths(jsonData) == IF ~Truthy(jsonData) THEN <<>> ELSE getAllPaths(jsonData, "data")

\* the bracket context: the state after the branch of a bracket match
BracketResult(h, paths, match, cursorPosition) ==
  LET basePath == match.basePath
      partialKey == match.partialKey
      matchStart == cursorPosition - Len(match.full)
      filtered == SelectSeq(paths, LAMBDA s : BracketKeeps(s, basePath, partialKey))
      unique == UniqueSuggestions(filtered, basePath)
      finalSuggestions ==
        [i \in DOMAIN unique |-> BracketEntry(unique[i], basePath, match.quote)]
  IN IF Len(finalSuggestions) > 0
     THEN Opened(finalSuggestions, matchStart + Len(basePath) + 2 + Len(partialKey),
                 cursorPosition, Null)
     ELSE Closed(h)

\* the dot context: the state after the branch of a path match
DotResult(h, paths, match, cursorPosition) ==
  LET basePath == match.basePath
      partialKey == match.partialKey
      matchStart == cursorPosition - Len(match.full)
      filtered == SelectSeq(paths, LAMBDA s : DotKeeps(s, basePath, partialKey))
      unique == UniqueSuggestions(filtered, basePath)
      finalSuggestions == [i \in DOMAIN unique |-> DotEntry(unique[i], basePath)]
  IN IF Len(finalSuggestions) > 0
     THEN Opened(finalSuggestions,
                 matchStart + Len(basePath) + (IF partialKey # "" THEN 1 ELSE 0),
                 cursorPosition, Null)
     ELSE Closed(h)

\* the branches of findSuggestions on the matches of the four patterns
Resolve(h, jsonData, cursorPosition, snippet, callback, bracket, path) ==
  LET keysSuggestions == IF callback # NoMatch /\ Truthy(jsonData)
                         THEN CallbackSuggestions(jsonData, callback) ELSE <<>>
      replaceStart == cursorPosition - Len(SplitAfterParam(callback.afterParam).partialKey)
  IN IF snippet # NoMatch
     THEN Opened(CODE_SNIPPETS, cursorPosition - Len(snippet.full), cursorPosition, Null)
     ELSE IF Len(keysSuggestions) > 0
     THEN Opened(keysSuggestions, replaceStart, cursorPosition,
                 [start |-> replaceStart, end |-> cursorPosition])
     ELSE IF bracket # NoMatch THEN BracketResult(h, allPaths(jsonData), bracket, cursorPosition)
     ELSE IF path = NoMatch THEN Closed(h)
     ELSE DotResult(h, allPaths(jsonData), path, cursorPosition)

\* the state of the hook after findSuggestions(code, cursorPosition)
Found(h, jsonData, code, cursorPosition) ==
  Resolve(h, jsonData, cursorPosition,
          snippetMatch(StrSlice(code, 0, cursorPosition)),
          callbackMatch(StrSlice(code, 0, cursorPosition)),
          bracketMatch(StrSlice(code, 0, cursorPosition)),
          pathMatch(StrSlice(code, 0, cursorPosition)))

findSuggestions(code, cursorPosition) ==
  /\ hook' = Found(hook, input.jsonData, code, cursorPosition)
  /\ last' = Call("findSuggestions", 0, <<Text(code), Num(cursorPosition)>>, 0, Undefined, FALSE)
  /\ UNCHANGED <<arrays, handles, input, ui>>

selectSuggestion(suggestion) ==
  /\ hook' = [hook EXCEPT !.isOpen = FALSE]
  /\ last' = Call("selectSuggestion", 0, <<suggestion>>, 0, suggestion, FALSE)
  /\ UNCHANGED <<arrays, handles, input, ui>>

\* a selection that stops at both ends of the list
moveSelectionStopping(direction) ==
  /\ hook' = [hook EXCEPT !.selectedIndex =
                IF direction = "up"
                THEN IF @ > 0 THEN @ - 1 ELSE 0
                ELSE IF @ < Len(hook.suggestions) - 1 THEN @ + 1 ELSE @]
  /\ last' = Call("moveSelection", 0, <<Text(direction)>>, 0, Undefined, FALSE)
  /\ UNCHANGED <<arrays, handles, input, ui>>

moveSelection(direction) ==
  /\ hook' = [hook EXCEPT !.selectedIndex =
                IF direction = "up"
                THEN IF @ > 0 THEN @ - 1 ELSE Len(hook.suggestions) - 1
                ELSE IF @ < Len(hook.suggestions) - 1 THEN @ + 1 ELSE 0]
  /\ last' = Call("moveSelection", 0, <<Text(direction)>>, 0, Undefined, FALSE)
  /\ UNCHANGED <<arrays, handles, input, ui>>

\* a close that also forgets the candidates
closeForgetting ==
  /\ hook' = [hook EXCEPT !.isOpen = FALSE, !.suggestions = <<>>]
  /\ last' = Call("close", 0, <<>>, 0, Undefined, FALSE)
  /\ UNCHANGED <<arrays, handles, input, ui>>

close ==
  /\ hook' = [hook EXCEPT !.isOpen = FALSE]
  /\ last' = Call("close", 0, <<>>, 0, Undefined, FALSE)
  /\ UNCHANGED <<arrays, handles, input, ui>>

(***************************************************************************)
(* The suggestion engine on a buffer: input holds the JSON document and    *)
(* the text of the editor, and findSuggestions is called with the cursor   *)
(* at the end of the text or up to MaxBack characters before it.           *)
(***************************************************************************)
MaxTokens == 3
MaxBack == 1

\* the pieces a buffer is typed from
Tokens ==
  {"data", ".", "u", "t", ".posts", ".map(p=>p.", ".map(data=>data.", "['", "/", " "}

\* the texts of at most n tokens
RECURSIVE TextsOf(_)
TextsOf(n) ==
  IF n = 0 THEN {""}
  ELSE TextsOf(n - 1) \cup {s \o t : s \in TextsOf(n - 1), t \in Tokens}

\* {"user":{"name":"John"},"posts":[{"id":1,"title":"A"},{"id":2,"title":"B"}]}
UserPosts ==
  Rec(<<"user", "posts">>,
      <<Rec(<<"name">>, <<Text("John")>>),
        Arr(<<Rec(<<"id", "title">>, <<Num(1), Text("A")>>),
              Rec(<<"id", "title">>, <<Num(2), Text("B")>>)>>)>>)

\* {"u.v":1,"u":{"w":"x"},"posts":[{}]}
DottedKey ==
  Rec(<<"u.v", "u", "posts">>,
      <<Num(1), Rec(<<"w">>, <<Text("x")>>), Arr(<<Rec(<<>>, <<>>)>>)>>)

\* [{"id":1},"s",{"title":"A","Tag":2},null,5,5,5,5,5,5,{"ten":1}]
Eleven ==
  Arr(<<Rec(<<"id">>, <<Num(1)>>), Text("s"), Rec(<<"title", "Tag">>, <<Text("A"), Num(2)>>),
        Null, Num(5), Num(5), Num(5), Num(5), Num(5), Num(5), Rec(<<"ten">>, <<Num(1)>>)>>)

Documents == {UserPosts, DottedKey, Eleven}

InitSuggest ==
  /\ arrays = <<>>
  /\ handles = <<>>
  /\ last = NoCall
  /\ input \in [jsonData : Documents, code : TextsOf(MaxTokens)]
  /\ hook = HookInit
  /\ ui = <<>>

NextSuggest ==
  \E back \in 0..MaxBack :
    /\ back <= Len(input.code)
    /\ findSuggestions(input.code, Len(input.code) - back)

SpecSuggest == InitSuggest /\ [][NextSuggest]_vars

(***************************************************************************)
(* Claims about findSuggestions.  They speak of the last call: the text    *)
(* before its cursor, the first context whose pattern matches that text,   *)
(* and the candidates that context alone gives.                            *)
(***************************************************************************)
CalledFind == last.op = "findSuggestions"
CursorAt == last.args[2].n
TextBefore == StrSlice(last.args[1].s, 0, CursorAt)

Context ==
  IF snippetMatch(TextBefore) # NoMatch THEN "snippet"
  ELSE IF callbackMatch(TextBefore) # NoMatch THEN "callback"
  ELSE IF bracketMatch(TextBefore) # NoMatch THEN "bracket"
  ELSE IF pathMatch(TextBefore) # NoMatch THEN "dot"
  ELSE "none"

ContextCandidates ==
  CASE Context = "snippet" -> CODE_SNIPPETS
    [] Context = "callback" ->
         IF Truthy(input.jsonData) THEN CallbackSuggestions(input.jsonData, callbackMatch(TextBefore))
         ELSE <<>>
    [] Context = "bracket" ->
         BracketResult(HookInit, allPaths(input.jsonData), bracketMatch(TextBefore), CursorAt).suggestions
    [] Context = "dot" ->
         DotResult(HookInit, allPaths(input.jsonData), pathMatch(TextBefore), CursorAt).suggestions
    [] OTHER -> <<>>

\* C16: after a call of findSuggestions the list is open exactly when the first context
\* whose pattern matches the text before the cursor (snippet, callback, bracket, dot, in
\* this order) gives candidates, and the candidates are those of that context alone: a
\* callback match that yields no keys ends closed
OneContextPerCall ==
  CalledFind =>
    /\ hook.isOpen <=> ContextCandidates # <<>>
    /\ hook.isOpen => hook.suggestions = ContextCandidates

\* the position where the identifier at the end of the text before the cursor begins
PartialStart == SetMin({p \in 1..(Len(TextBefore) + 1) : RestIn(TextBefore, p, IdentChars)})
Partial == SubSeq(TextBefore, PartialStart, Len(TextBefore))

\* the positions where a path begins that ends just before the dot in front of the partial
BaseStarts ==
  {i \in DataStarts(TextBefore) : (PartialStart - 2) \in PathEnds(TextBefore, i + 3)}
Base == SubSeq(TextBefore, SetMin(BaseStarts), PartialStart - 2)

\* the text before the cursor ends in base.partial and base is an object of the document
EndsInBaseDotPartial ==
  /\ CalledFind
  /\ Context = "dot"
  /\ Partial # ""
  /\ CharAt(TextBefore, PartialStart) \in IdentStartChars
  /\ CharAt(TextBefore, PartialStart - 1) = "."
  /\ BaseStarts # {}
  /\ IsPlainObject(getValueAtPath(input.jsonData, Base))

\* the paths of the children of base whose key starts with the partial, whatever the case
MatchingChildren ==
  LET keys == Keys(getValueAtPath(input.jsonData, Base))
  IN {Base \o "." \o keys[k] : k \in {j \in DOMAIN keys :
        startsWith(toLowerCase(keys[j]), toLowerCase(Partial))}}

\* C17: in the dot context, for a text ending in base.partial where base is an object of
\* the document, findSuggestions opens the list with exactly the children of base whose key
\* starts with the partial, whatever the case, and the trigger range is the partial
DotPartialOpensChildren ==
  EndsInBaseDotPartial =>
    /\ hook.isOpen
    /\ {hook.suggestions[i].path : i \in DOMAIN hook.suggestions} = MatchingChildren
    /\ hook.triggerPosition = [start |-> CursorAt - Len(Partial), end |-> CursorAt]

\* what follows the base path is exactly one segment: a dot and a key, or an index in brackets
OneSegment(r) ==
  \/ /\ CharAt(r, 1) = "."
     /\ Len(r) > 1
     /\ \A k \in 2..Len(r) : CharAt(r, k) \notin {".", "["}
  \/ NumMatch(r) # "" /\ Len(r) = Len(NumMatch(r)) + 2

\* the entry of the path index for the path of a candidate has the candidate's value and type
CarriesOwnValue(c) ==
  LET paths == allPaths(input.jsonData)
      own == {j \in DOMAIN paths : paths[j].path = c.path}
  IN own # {} /\ \A j \in own : paths[j].value = c.value /\ paths[j].type = c.type

\* C18: in the dot context every candidate's path is the matched base path plus exactly one
\* segment, no child appears twice, and the candidate of a child carries the value and the
\* type of that child
DotChildrenOwnValues ==
  (CalledFind /\ Context = "dot" /\ hook.isOpen) =>
    LET basePath == pathMatch(TextBefore).basePath
    IN /\ \A i \in DOMAIN hook.suggestions :
            /\ startsWith(hook.suggestions[i].path, basePath)
            /\ OneSegment(Remaining(hook.suggestions[i], basePath))
            /\ CarriesOwnValue(hook.suggestions[i])
       /\ \A i, j \in DOMAIN hook.suggestions :
            hook.suggestions[i].path = hook.suggestions[j].path => i = j

\* the callback pattern matches the text before the cursor with no base path after the
\* parameter, and its array path is an array of the document
CallbackWithoutBase ==
  /\ CalledFind
  /\ Context = "callback"
  /\ SplitAfterParam(callbackMatch(TextBefore).afterParam).basePath = ""
  /\ getValueAtPath(input.jsonData, callbackMatch(TextBefore).arrayPath).t = "array"

TypedKey == SplitAfterParam(callbackMatch(TextBefore).afterParam).partialKey

\* the keys of the objects among the first 10 elements that start with the typed key
UnionOfKeys ==
  LET items == getValueAtPath(input.jsonData, callbackMatch(TextBefore).arrayPath).items
  IN {k \in UNION {{items[i].keys[j] : j \in DOMAIN items[i].keys} :
                     i \in {n \in DOMAIN items : n <= 10 /\ items[n].t = "record"}} :
        startsWith(toLowerCase(k), toLowerCase(TypedKey))}

\* C19: in the callback context with no base path the candidates are exactly the keys of the
\* objects among the first 10 elements of the array that start with the typed key, whatever
\* the case, each once, and the trigger range is the typed key; with no such key there is
\* no candidate
CallbackOffersUnionOfKeys ==
  CallbackWithoutBase =>
    /\ hook.isOpen <=> UnionOfKeys # {}
    /\ hook.isOpen =>
         /\ {hook.suggestions[i].path : i \in DOMAIN hook.suggestions} = UnionOfKeys
         /\ Len(hook.suggestions) = Cardinality(UnionOfKeys)
         /\ hook.triggerPosition = [start |-> CursorAt - Len(TypedKey), end |-> CursorAt]

\* the bracket pattern matches the text before the cursor and its path is an array of the
\* document
BracketOnArray ==
  /\ CalledFind
  /\ Context = "bracket"
  /\ getValueAtPath(input.jsonData, bracketMatch(TextBefore).basePath).t = "array"

\* the indices getAllPaths samples of the array, in brackets, that start with the typed key
SampledIndices ==
  LET items == getValueAtPath(input.jsonData, bracketMatch(TextBefore).basePath).items
  IN {"[" \o ToStr(n) \o "]" : n \in {k \in 0..2 :
        k < Len(items) /\ startsWith(ToStr(k), bracketMatch(TextBefore).partialKey)}}

\* C20: in the bracket context on an array the candidates are exactly the sampled indices of
\* the array, each inserted as the path followed by the index in brackets, and no key or
\* method is offered
BracketOnArrayOffersIndices ==
  BracketOnArray =>
    /\ hook.isOpen <=> SampledIndices # {}
    /\ hook.isOpen =>
         /\ {hook.suggestions[i].displayPath : i \in DOMAIN hook.suggestions} = SampledIndices
         /\ \A i \in DOMAIN hook.suggestions :
              hook.suggestions[i].insertPath =
                bracketMatch(TextBefore).basePath \o hook.suggestions[i].displayPath

\* the positions of a slash that only white space follows up to the cursor
TriggerSlashes ==
  {k \in 1..Len(TextBefore) :
     /\ CharAt(TextBefore, k) = "/"
     /\ \A j \in (k + 1)..Len(TextBefore) : CharAt(TextBefore, j) \in SpaceChars}

\* C21: when the text before the cursor ends with a slash and optional white space,
\* findSuggestions opens the list with the whole catalog CODE_SNIPPETS in its order,
\* selectedIndex 0 and the trigger range from the slash to the cursor
SlashOpensCatalog ==
  (CalledFind /\ TriggerSlashes # {}) =>
    /\ hook.isOpen
    /\ hook.suggestions = CODE_SNIPPETS
    /\ hook.selectedIndex = 0
    /\ hook.triggerPosition = [start |-> SetMax(TriggerSlashes) - 1, end |-> CursorAt]

\* the catalog opened by a slash followed by a space, after other text
SlashThenSpaceOpened ==
  /\ CalledFind
  /\ TextBefore = "data/ "
  /\ hook.isOpen
  /\ Len(hook.suggestions) = 18
  /\ hook.triggerPosition = [start |-> 4, end |-> 6]

(***************************************************************************)
(* The hook over a whole editing session: the four functions it returns    *)
(* are called in any order, findSuggestions on one of the texts below with *)
(* the cursor at the end or up to MaxBack characters before it.  The       *)
(* document may be one that holds no path at all.                          *)
(***************************************************************************)
\* the texts of the editor
Drafts == {"x/ ", "data.", "data['u", "data.posts.map(p=>p.t"}

\* the documents that are neither an object nor an array
Scalars == {Null, Undefined, Num(5), Text("s"), Boolean(TRUE)}

HookDocuments == {UserPosts, Eleven} \cup Scalars

InitHook ==
  /\ arrays = <<>>
  /\ handles = <<>>
  /\ last = NoCall
  /\ input \in [jsonData : HookDocuments, code : {""}]
  /\ hook = HookInit
  /\ ui = <<>>

NextHook ==
  \/ \E code \in Drafts, back \in 0..MaxBack :
       /\ back <= Len(code)
       /\ findSuggestions(code, Len(code) - back)
  \/ \E direction \in {"up", "down"} : moveSelection(direction)
  \/ \E i \in DOMAIN hook.suggestions : selectSuggestion(hook.suggestions[i])
  \/ close

SpecHook == InitHook /\ [][NextHook]_vars

(***************************************************************************)
(* Claims about the hook over sequences of calls.                          *)
(***************************************************************************)
LastIndex(h) == Len(h.suggestions) - 1

Moved(direction) == last'.op = "moveSelection" /\ last'.args = <<Text(direction)>>

\* C24: under every sequence of findSuggestions, moveSelection, selectSuggestion and
\* close, an open list has 0 <= selectedIndex < number of candidates; moveSelection
\* down at the last index gives 0, moveSelection up at index 0 gives the last index,
\* and every findSuggestions that opens the list sets selectedIndex to 0
SelectionStaysInside ==
  [][/\ hook'.isOpen => hook'.selectedIndex \in 0..LastIndex(hook')
     /\ (Moved("down") /\ hook.selectedIndex = LastIndex(hook)) => hook'.selectedIndex = 0
     /\ (Moved("up") /\ hook.selectedIndex = 0) => hook'.selectedIndex = LastIndex(hook)
     /\ (last'.op = "findSuggestions" /\ hook'.isOpen) => hook'.selectedIndex = 0]_vars

\* moveSelection up has gone from the first candidate of the open catalog to the last
WrappedToLast ==
  /\ last.op = "moveSelection"
  /\ last.args = <<Text("up")>>
  /\ hook.isOpen
  /\ hook.suggestions = CODE_SNIPPETS
  /\ hook.selectedIndex = 17

\* C25 as stated: with a document that is null, undefined or a scalar, every
\* findSuggestions leaves the list closed, with no candidates, and raises nothing
ScalarNeverOpens ==
  (CalledFind /\ input.jsonData \in Scalars) =>
    ~hook.isOpen /\ hook.suggestions = <<>> /\ ~last.err

\* C25, amended: with a document that is null, undefined or a scalar, findSuggestions
\* raises nothing and leaves the list closed unless the text before the cursor ends
\* with a slash and optional white space; then it opens the list with the catalog of
\* snippets, the only candidates the hook ever holds for such a document
ScalarOpensOnlySnippets ==
  (CalledFind /\ input.jsonData \in Scalars) =>
    /\ hook.isOpen <=> TriggerSlashes # {}
    /\ hook.suggestions \in {<<>>, CODE_SNIPPETS}
    /\ hook.isOpen => hook.suggestions = CODE_SNIPPETS
    /\ ~last.err

\* a path typed over the number 5 closes the list that a slash had opened
ScalarClosedAfterPath ==
  /\ CalledFind
  /\ input.jsonData = Num(5)
  /\ TextBefore = "data."
  /\ ~hook.isOpen
  /\ hook.suggestions = CODE_SNIPPETS

\* C29: an open list has at least one candidate, and selectSuggestion and close
\* always leave the list closed without changing the candidates or the trigger range
OpenHasCandidates ==
  [][/\ hook'.isOpen => hook'.suggestions # <<>>
     /\ last'.op \in {"selectSuggestion", "close"} =>
          /\ ~hook'.isOpen
          /\ hook'.suggestions = hook.suggestions
          /\ hook'.triggerPosition = hook.triggerPosition]_vars

\* close has left the candidates of the callback context and their trigger range
ClosedKeepsCandidates ==
  /\ last.op = "close"
  /\ ~hook.isOpen
  /\ Len(hook.suggestions) = 1
  /\ hook.suggestions[1].path = "title"
  /\ hook.triggerPosition = [start |-> 20, end |-> 21]

\* the type tags of the interface AutocompleteSuggestion
TypeTags == {"string", "number", "boolean", "array", "object", "null", "method", "snippet"}

\* C26 as stated: every candidate of the list, those of the merged keys of a callback
\* context included, carries one of the eight type tags
CandidatesCarryTypeTags ==
  \A i \in DOMAIN hook.suggestions : hook.suggestions[i].type \in TypeTags

(***************************************************************************)
(* The path index of a document: getAllPaths is applied to documents whose *)
(* arrays have up to MaxItems elements, at the root, under a key, inside   *)
(* an array, and at an index the index does not reach.                     *)
(***************************************************************************)
MaxItems == 4

Leaves == {Num(1), Null}

ItemArrays == {Arr(items) : items \in SeqsOf(Leaves, MaxItems)}

IndexDocuments ==
  ItemArrays
    \cup {Rec(<<"xs">>, <<a>>) : a \in ItemArrays}
    \cup {Arr(<<a, Rec(<<"xs">>, <<a>>)>>) : a \in ItemArrays}
    \cup {Arr(<<Num(1), Num(1), Num(1), a>>) : a \in ItemArrays}

InitIndex ==
  /\ arrays = <<>>
  /\ handles = <<>>
  /\ last = NoCall
  /\ input \in [jsonData : IndexDocuments, code : {""}]
  /\ hook = <<>>
  /\ ui = <<>>

\* getAllPaths(jsonData), as the memo of the hook calls it
IndexPaths ==
  /\ last' = Call("getAllPaths", 0, <<input.jsonData>>, 0,
                  Arr(getAllPaths(input.jsonData, "data")), FALSE)
  /\ UNCHANGED <<arrays, handles, input, hook, ui>>

NextIndex == IndexPaths

SpecIndex == InitIndex /\ [][NextIndex]_vars

\* the index getAllPaths returned
Index == last.val.items

\* the arrays the index knows: the document itself and the values of its entries
IndexedArrays ==
  (IF input.jsonData.t = "array" THEN {[path |-> "data", value |-> input.jsonData]} ELSE {})
    \cup {[path |-> Index[i].path, value |-> Index[i].value] :
            i \in {j \in DOMAIN Index : Index[j].type = "array"}}

\* the entries of the index for the elements of the array at path, in index order
ElementEntries(path) ==
  SelectSeq(Index, LAMBDA e :
    /\ startsWith(e.path, path \o "[")
    /\ Len(e.path) = Len(path) + 3
    /\ endsWith(e.path, "]"))

\* the numbers between brackets in a path of single-digit indices
IndexSegmentsOf(path) ==
  {d \in 0..9 : \E k \in 1..(Len(path) - 2) :
     SubSeq(path, k, k + 2) = "[" \o ToStr(d) \o "]"}

\* C27: the index holds element entries for the first 3 elements of each array only:
\* for an array of length L exactly the min(L,3) entries [0] .. [min(L,3)-1], in
\* ascending order, and no path of the index has an index segment of 3 or more
IndexSamplesThree ==
  last.op = "getAllPaths" =>
    /\ \A a \in IndexedArrays :
         LET n == Min2(Len(a.value.items), 3)
         IN ElementEntries(a.path) =
              [k \in 1..n |->
                 Suggestion(a.path \o "[" \o ToStr(k - 1) \o "]", a.value.items[k],
                            getType(a.value.items[k]), "[" \o ToStr(k - 1) \o "]")]
    /\ \A i \in DOMAIN Index : \A d \in IndexSegmentsOf(Index[i].path) : d < 3

\* the index of an array of four elements under a key, with three element entries
FourElementsThreeEntries ==
  /\ last.op = "getAllPaths"
  /\ input.jsonData.t = "record"
  /\ Len(input.jsonData.vals[1].items) = 4
  /\ Len(ElementEntries("data.xs")) = 3
  /\ Len(Index) = 10

(***************************************************************************)
(* The loop of Chunk, one iteration at a time.  While the call runs, last  *)
(* holds its frame: the loop variable i, the array out, and whether the    *)
(* number of iterations so far is odd.  The frame records at most          *)
(* MaxChunks chunks and no i below -MaxChunks: a loop that goes on beyond  *)
(* that goes on iterating with the same i and out.  Batch calls Chunk.     *)
(***************************************************************************)
MaxChunks == 4

Frame(i, out, odd) == [t |-> "frame", i |-> i, out |-> out, odd |-> odd]

Running == last.op \in {"Chunk", "Batch"} /\ last.ret = 0

\* const out = []; let i = 0
ChunkEnter(op, h, size) ==
  /\ last' = Call(op, h, [size |-> size], 0, Frame(0, <<>>, FALSE), FALSE)
  /\ UNCHANGED <<arrays, handles, input, hook, ui>>

\* i < this._arr.length: out.push(this._arr.slice(i, i + size)); i += size
ChunkIterate ==
  /\ Running
  /\ last.val.i < Len(ArrOf(last.recv))
  /\ last' = [last EXCEPT !.val =
       Frame(Max2(last.val.i + last.args.size, -MaxChunks),
             IF Len(last.val.out) < MaxChunks
             THEN last.val.out \o
                    <<Arr(slice(ArrOf(last.recv), last.val.i, last.val.i + last.args.size))>>
             ELSE last.val.out,
             ~last.val.odd)]
  /\ UNCHANGED <<arrays, handles, input, hook, ui>>

\* i >= this._arr.length: return new Queryable(out)
ChunkReturn ==
  /\ Running
  /\ last.val.i >= Len(ArrOf(last.recv))
  /\ NewQueryable(last.op, last.recv, last.args, last.val.out)

InitLoop ==
  \E iterable \in SeqsOf(Numbers, MaxShapeLen) :
    /\ From(iterable)
    /\ input = [iterable |-> iterable]
    /\ hook = <<>>
    /\ ui = <<>>

NextLoop ==
  \/ \E size \in Sizes : last.op = "From" /\ ChunkEnter("Chunk", 1, size)
  \/ \E size \in Sizes : last.op = "From" /\ ChunkEnter("Batch", 1, size)
  \/ ChunkIterate
  \/ ChunkReturn

\* a call that has started goes on: nothing else runs
SpecLoop == InitLoop /\ [][NextLoop]_vars /\ WF_vars(NextLoop)

LoopEnded == last.op \in {"Chunk", "Batch"} /\ last.ret # 0

\* C28 as stated: Chunk(size) and Batch(size) end and return a result for every
\* sequence and every integer size, 0 and the negative sizes on a non-empty
\* sequence included
ChunkAndBatchReturn == Running ~> LoopEnded

(***************************************************************************)
(* The component CodeEditor over the hook.  ui holds the text of the       *)
(* textarea (the prop value, which the parent sets to what onChange        *)
(* receives) and its selectionStart; the selection is empty.  Autocomplete *)
(* is enabled.  A handler is taken together with the timer it sets to move *)
(* the cursor.  The Tab key lengthens the text, so it is only followed     *)
(* while the text is shorter than MaxText.                                 *)
(***************************************************************************)
MaxText == 8

\* suggestion.insertPath ?? suggestion.path
InsertTextOf(suggestion) ==
  IF "insertPath" \in DOMAIN suggestion THEN suggestion.insertPath ELSE suggestion.path

\* the match whose text handleSelectSuggestion replaces, of its three patterns
EditorMatch(type, snippetTrigger, bracket, path) ==
  IF type = "snippet" THEN snippetTrigger
  ELSE IF bracket # NoMatch THEN bracket
  ELSE path

\* the text and the cursor after an insertion at the cursor that removes nothing
SplicedAtCursor(u, match, insertText) ==
  IF match = NoMatch THEN u
  ELSE [value |-> StrSlice(u.value, 0, u.selectionStart) \o insertText
                    \o StrSlice(u.value, u.selectionStart, Len(u.value)),
        selectionStart |-> u.selectionStart + Len(insertText)]

\* the text and the cursor after the replacement of the matched text before the cursor
Spliced(u, match, insertText) ==
  IF match = NoMatch THEN u
  ELSE LET matchStart == u.selectionStart - Len(match.full)
       IN [value |-> StrSlice(u.value, 0, matchStart) \o insertText
                       \o StrSlice(u.value, u.selectionStart, Len(u.value)),
           selectionStart |-> matchStart + Len(insertText)]

\* the text and the cursor after handleSelectSuggestion(suggestion)
Accepted(u, suggestion) ==
  Spliced(u,
          EditorMatch(suggestion.type,
                      snippetMatch(StrSlice(u.value, 0, u.selectionStart)),
                      bracketMatch(StrSlice(u.value, 0, u.selectionStart)),
                      pathMatch(StrSlice(u.value, 0, u.selectionStart))),
          InsertTextOf(suggestion))

handleChange(newValue, cursorPos) ==
  /\ ui' = [value |-> newValue, selectionStart |-> cursorPos]
  /\ hook' = IF Truthy(input.jsonData) THEN Found(hook, input.jsonData, newValue, cursorPos)
             ELSE hook
  /\ last' = Call("handleChange", 0, <<Text(newValue), Num(cursorPos)>>, 0, Undefined, FALSE)
  /\ UNCHANGED <<arrays, handles, input>>

handleSelectSuggestion(suggestion) ==
  /\ ui' = Accepted(ui, suggestion)
  /\ hook' = [hook EXCEPT !.isOpen = FALSE]
  /\ last' = Call("handleSelectSuggestion", 0, <<suggestion>>, 0, Undefined, FALSE)
  /\ UNCHANGED <<arrays, handles, input>>

EditorKeys == {"ArrowDown", "ArrowUp", "Tab", "Enter", "Escape"}

handleKeyDown(key) ==
  /\ IF hook.isOpen /\ Len(hook.suggestions) > 0
     THEN /\ hook' = [hook EXCEPT
                 !.selectedIndex =
                    IF key = "ArrowDown" THEN (IF @ < Len(hook.suggestions) - 1 THEN @ + 1 ELSE 0)
                    ELSE IF key = "ArrowUp" THEN (IF @ > 0 THEN @ - 1 ELSE Len(hook.suggestions) - 1)
                    ELSE @,
                 !.isOpen = key \in {"ArrowDown", "ArrowUp"}]
          /\ ui' = IF key \in {"Tab", "Enter"}
                   THEN Accepted(ui, hook.suggestions[hook.selectedIndex + 1])
                   ELSE ui
     ELSE /\ key = "Tab" => Len(ui.value) < MaxText
          /\ hook' = hook
          /\ ui' = IF key = "Tab"
                   THEN [value |-> StrSlice(ui.value, 0, ui.selectionStart) \o "  "
                                     \o StrSlice(ui.value, ui.selectionStart, Len(ui.value)),
                         selectionStart |-> ui.selectionStart + 2]
                   ELSE ui
  /\ last' = Call("handleKeyDown", 0, <<Text(key)>>, 0, Undefined, FALSE)
  /\ UNCHANGED <<arrays, handles, input>>

handleClickOutside ==
  /\ hook' = [hook EXCEPT !.isOpen = FALSE]
  /\ last' = Call("handleClickOutside", 0, <<>>, 0, Undefined, FALSE)
  /\ UNCHANGED <<arrays, handles, input, ui>>

\* the texts typed into the editor, with the cursor where the typing leaves it
Typed(value, cursorPos) == [value |-> value, cursorPos |-> cursorPos]

EditorDrafts ==
  {Typed("x/ ", 3), Typed("data.", 5), Typed("data['u']", 7),
   Typed("data.posts.map(p=>p.t)", 21), Typed("data.posts.map(data=>data.t", 27)}

EditorDocuments == {UserPosts, Null}

InitEditor ==
  /\ arrays = <<>>
  /\ handles = <<>>
  /\ last = NoCall
  /\ input \in [jsonData : EditorDocuments, code : {""}]
  /\ hook = HookInit
  /\ ui = [value |-> input.code, selectionStart |-> 0]

NextEditor ==
  \/ \E e \in EditorDrafts : handleChange(e.value, e.cursorPos)
  \/ \E key \in EditorKeys : handleKeyDown(key)
  \/ \E i \in DOMAIN hook.suggestions : hook.isOpen /\ handleSelectSuggestion(hook.suggestions[i])
  \/ handleClickOutside

SpecEditor == InitEditor /\ [][NextEditor]_vars

(***************************************************************************)
(* Claims about the editor.  A suggestion is accepted by a click in the    *)
(* dropdown or by Tab or Enter while the list is open.                     *)
(***************************************************************************)
Accepting ==
  \/ last'.op = "handleSelectSuggestion"
  \/ /\ last'.op = "handleKeyDown"
     /\ last'.args[1].s \in {"Tab", "Enter"}
     /\ hook.isOpen
     /\ Len(hook.suggestions) > 0

\* the suggestion that is accepted
Choice ==
  IF last'.op = "handleSelectSuggestion" THEN last'.args[1]
  ELSE hook.suggestions[hook.selectedIndex + 1]

\* the text of the accepted suggestion: its insertPath where it has one, else its path
ChoiceText == IF "insertPath" \in DOMAIN Choice THEN Choice.insertPath ELSE Choice.path

\* the text with the range from start to end replaced, and the cursor after the new text
Replaced(u, start, end, text) ==
  [value |-> StrSlice(u.value, 0, start) \o text \o StrSlice(u.value, end, Len(u.value)),
   selectionStart |-> start + Len(text)]

BeforeAccept == StrSlice(ui.value, 0, ui.selectionStart)

\* where the expression that the editor replaces starts: the slash of a snippet
\* trigger for a snippet, else the bracket expression or else the path expression
\* that ends at the cursor; -1 where there is none
ExpressionStart ==
  LET m == IF Choice.type = "snippet" THEN snippetMatch(BeforeAccept)
           ELSE IF bracketMatch(BeforeAccept) # NoMatch THEN bracketMatch(BeforeAccept)
           ELSE pathMatch(BeforeAccept)
  IN IF m = NoMatch THEN -1 ELSE ui.selectionStart - Len(m.full)

AcceptReplacesCallbackRange ==
  [][(Accepting /\ hook.callbackReplaceRange # Null) =>
       /\ ui' = Replaced(ui, hook.callbackReplaceRange.start, hook.callbackReplaceRange.end,
                         Choice.path)
       /\ endsWith(StrSlice(ui'.value, 0, ui'.selectionStart), Choice.path)]_vars

(***************************************************************************)
(* The component JsonPlayground: automatic and manual runs of the code.    *)
(* ui holds the state of the component and the timers it has set.  The     *)
(* JSON text is kept as valid or not (what JSON.parse decides) and the     *)
(* code by its kind: empty (no line but blank lines and comments), dump    *)
(* (uses Dump, so the function is built inside the timer), plain (one      *)
(* expression that evaluates), throws (one expression that raises when it  *)
(* is evaluated) and syntax (text without Dump that new Function rejects). *)
(* The user changes the inputs, switches autoRun and runs by hand at most  *)
(* MaxActions times; the timers always fire in the end.                    *)
(***************************************************************************)
MaxActions == 2

CodeKinds == {"empty", "dump", "plain", "throws", "syntax"}

\* the entries of setOutput, by their content
JsonErrorEntry == "JSON Parse Error"
HintEntry == "Write some code to see results"
ResultEntry == "result"
ErrorEntry == "error"
TimedOutEntry == "Execution timed out"

\* the state of the component after executeCode() of a render with these inputs
executeCode(u, jsonValid, code) ==
  IF ~jsonValid THEN [u EXCEPT !.output = <<JsonErrorEntry>>]
  ELSE IF code = "empty" THEN [u EXCEPT !.output = <<HintEntry>>]
  ELSE IF code = "syntax"
  THEN [u EXCEPT !.runId = @ + 1, !.timedOut = FALSE,
                 !.timeouts = @ \cup {u.runId + 1},
                 !.output = <<ErrorEntry>>, !.isExecuting = FALSE]
  ELSE [u EXCEPT !.runId = @ + 1, !.timedOut = FALSE, !.isExecuting = TRUE,
                 !.timeouts = @ \cup {u.runId + 1},
                 !.bodies = @ \o <<[runId |-> u.runId + 1, code |-> code]>>]

\* the state after the callback of setTimeout(..., 0) of a run
RunBody(u, body) ==
  [u EXCEPT !.bodies = Tail(@),
            !.timeouts = @ \ {body.runId},
            !.output = IF u.timedOut THEN @
                       ELSE IF body.code = "throws" THEN <<ErrorEntry>> ELSE <<ResultEntry>>,
            !.isExecuting = IF u.timedOut THEN @ ELSE FALSE]

\* the state after the callback of setTimeout(..., EXECUTION_TIMEOUT_MS) of run runId
TimedOut(u, runId) ==
  IF u.runId # runId THEN [u EXCEPT !.timeouts = @ \ {runId}]
  ELSE [u EXCEPT !.timeouts = @ \ {runId}, !.timedOut = TRUE,
                 !.output = @ \o <<TimedOutEntry>>, !.isExecuting = FALSE]

\* the effect on [jsonInput, codeInput, autoRun]: it restarts the debounce timer
AutoRunEffect(u) == IF u.autoRun THEN [u EXCEPT !.debounce = TRUE] ELSE u

Playground(op, u) ==
  /\ ui' = u
  /\ last' = Call(op, 0, <<>>, 0, Undefined, FALSE)
  /\ UNCHANGED <<arrays, handles, input, hook>>

UserActs == ui.actions < MaxActions

handleJsonChange(jsonValid) ==
  /\ UserActs
  /\ Playground("handleJsonChange",
                AutoRunEffect([ui EXCEPT !.jsonValid = jsonValid, !.actions = @ + 1]))

setCodeInput(code) ==
  /\ UserActs
  /\ Playground("setCodeInput", AutoRunEffect([ui EXCEPT !.code = code, !.actions = @ + 1]))

setAutoRun ==
  /\ UserActs
  /\ Playground("setAutoRun", AutoRunEffect([ui EXCEPT !.autoRun = ~@, !.actions = @ + 1]))

\* the Run button and Ctrl+Enter
RunByHand ==
  /\ UserActs
  /\ Playground("executeCode", executeCode([ui EXCEPT !.actions = @ + 1], ui.jsonValid, ui.code))

\* the debounce timer fires
debouncedExecute ==
  /\ ui.debounce
  /\ Playground("debouncedExecute",
                IF ui.autoRun
                THEN [ui EXCEPT !.debounce = FALSE, !.isExecuting = TRUE,
                                !.execs = @ \o <<[jsonValid |-> ui.jsonValid, code |-> ui.code]>>]
                ELSE [ui EXCEPT !.debounce = FALSE])

\* the timer of setTimeout(executeCode, 50) fires
ExecuteScheduled ==
  /\ ui.execs # <<>>
  /\ Playground("setTimeout(executeCode, 50)",
                executeCode([ui EXCEPT !.execs = Tail(@)], ui.execs[1].jsonValid, ui.execs[1].code))

\* the timer of a run fires and the code runs
BodyFires ==
  /\ ui.bodies # <<>>
  /\ Playground("setTimeout(run, 0)", RunBody(ui, ui.bodies[1]))

\* the timer of the time limit of a run fires; the timer of its body, set at the
\* same time with no delay, has fired before
TimeoutFires(runId) ==
  /\ runId \in ui.timeouts
  /\ \A k \in DOMAIN ui.bodies : ui.bodies[k].runId # runId
  /\ Playground("setTimeout(timedOut, EXECUTION_TIMEOUT_MS)", TimedOut(ui, runId))

\* the component is mounted with the inputs of the defaults, of the saved state or
\* of a shared link; the effect has run once
InitPlayground ==
  /\ arrays = <<>>
  /\ handles = <<>>
  /\ last = NoCall
  /\ input = <<>>
  /\ hook = <<>>
  /\ ui \in [jsonValid : BOOLEAN, code : CodeKinds, autoRun : {TRUE}, isExecuting : {FALSE},
             output : {<<>>}, runId : {0}, timedOut : {FALSE}, debounce : {TRUE},
             execs : {<<>>}, bodies : {<<>>}, timeouts : {{}}, actions : {0}]

Timers ==
  \/ debouncedExecute
  \/ ExecuteScheduled
  \/ BodyFires
  \/ \E runId \in ui.timeouts : TimeoutFires(runId)

NextPlayground ==
  \/ \E jsonValid \in BOOLEAN : handleJsonChange(jsonValid)
  \/ \E code \in CodeKinds : setCodeInput(code)
  \/ setAutoRun
  \/ RunByHand
  \/ debouncedExecute
  \/ ExecuteScheduled
  \/ BodyFires
  \/ \E runId \in ui.timeouts : TimeoutFires(runId)

SpecPlayground == InitPlayground /\ [][NextPlayground]_vars

\* a timer that has been set fires
SpecPlaygroundFair == SpecPlayground /\ WF_vars(Timers)

\* the debounced callback has started an automatic run
AutoRunStarted == last.op = "debouncedExecute" /\ ui.isExecuting

\* the output panel shows entries: it shows Running... while isExecuting
PanelShowsEntries == ~ui.isExecuting /\ ui.output # <<>>

\* C30 as stated: after every automatic run isExecuting returns to false in the end
\* and the output panel shows the entries of the run, for every input, an invalid
\* JSON document and empty or comment-only code included
AutoRunSettles == AutoRunStarted ~> PanelShowsEntries

====
